---- MODULE Spec2Model ----
(***************************************************************************)
(* A model of adonm/siem-query-utils: the TTL cache decorator, the azcli   *)
(* command wrapper, the analyticsQuery fan-out and listWorkspaces of       *)
(* src/main.py, the session store and reverse proxy of                     *)
(* src/siem_query_utils/proxy.py, and the memoized azcli of                *)
(* src/siem_query_utils/azcli.py.                                          *)
(*                                                                         *)
(* Each component has its own specification over the shared variables:     *)
(*   SpecCache    the decorator `cache` called sequentially                *)
(*   SpecQuery    analyticsQuery with its worker pool and the azcli cache  *)
(*   SpecSession  load_session and the shared default configuration        *)
(*   SpecProxy    the upstream request handler                             *)
(*   SpecAzcli    azcli behind the shared Cache, with login and bootstrap  *)
(*   SpecCapacity the two caches filled beyond their maxsize               *)
(*   SpecDirectory listWorkspaces, from discovery to validation            *)
(*   SpecTable    _session and the session table                           *)
(*   SpecRace     threads that call the decorator with one expired key     *)
(*   SpecSimple   simpleQuery over what listWorkspaces returns             *)
(*   SpecRepeat   analyticsQuery called a second time                      *)
(*   SpecQueryLive  SpecQuery with fair scheduling of its steps            *)
(*   SpecArgs     azcli called with a list its caller keeps                *)
(*   SpecDay      listWorkspaces and globalQuery behind the day-long cache *)
(***************************************************************************)
EXTENDS Integers, Sequences, FiniteSets, TLC

(***************************************************************************)
(* Bounds of the model.                                                    *)
(***************************************************************************)
NumKeys == 3          \* distinct argument tuples a cached function is called with
MaxSize == 2          \* the decorator's maxsize parameter
Ttl == 2              \* the decorator's ttl parameter, in clock ticks
MaxTime == 4          \* the clock is observed up to this tick
MaxDur == 1           \* ticks one invocation of the wrapped function may take
MaxInvocations == 4   \* invocations of the wrapped function in one behaviour
MaxN == 61            \* longest list of workspace ids analyticsQuery is called with
MaxRows == 1          \* most rows one command returns
MaxLoads == 3         \* calls of load_session in one behaviour
MemoMaxSize == 2      \* the shared Cache's maxsize, scaled down from 25600
MaxRuns == 3          \* runs of the az command line in one behaviour
MaxListed == 31       \* most workspaces one subscription lists
NumThreads == 2       \* threads that call wrapper with one key at the same time
MaxNamed == 3         \* most workspaces listWorkspaces returns to simpleQuery
MaxHalfMinutes == 3   \* the clock is read up to this many half minutes after the start
MaxHalfDays == 3      \* the actions are called up to this many half days after the start

VARIABLES
    now,          \* time.monotonic()
    cached_func,  \* the lru_cache of cached_func: Result entries, least recently used first
    invocations,  \* how often the wrapped function has been invoked
    computed,     \* history: per key, the Result a call last computed and stored
    call,         \* history: what the last call of wrapper found and did
    used          \* history: the keys cached_func found or stored, last use last

cacheVars == <<now, cached_func, invocations, computed, call, used>>

VARIABLES
    workspaces,   \* analyticsQuery: the list of customerIds it is called with
    chunks,       \* analyticsQuery: the chunks of the sorted list
    results,      \* analyticsQuery: the futures, in submission order
    output,       \* analyticsQuery: the rows collected so far
    pc,           \* analyticsQuery: where the calling thread is
    collected,    \* analyticsQuery: how many futures `for future in results` has visited
    finished      \* history: the futures in the order their invocations completed

queryVars == <<workspaces, chunks, results, output, pc, collected, finished>>

VARIABLES
    config,       \* load_session: the dict its `config` parameter defaults to
    loads         \* history: the calls of load_session, each with what it returned

sessionVars == <<config, loads>>

VARIABLES
    request,      \* upstream: the inbound request being served
    sent,         \* upstream: what upstream_client.stream was called with
    origin,       \* upstream: the response of the upstream, as received
    response,     \* upstream: what the handler returned or raised
    stage         \* upstream: where the handler is

proxyVars == <<request, sent, origin, response, stage>>

VARIABLES
    clock,        \* azcli.py: the time, in seconds (datetime.utcnow(), the Cache's timer)
    memo,         \* azcli.py: the entries of `cache`, oldest insertion first
    app_state,    \* azcli.py: app_state["logged_in"] and app_state["login_time"]
    runs,         \* azcli.py: how often cli.invoke has run a command
    last_run,     \* history: per call of azcli, when it last ran its command and what it returned
    memo_used,    \* history: the keys `cache` found or set, last use last
    az            \* history: the last call of azcli and how it ended

azcliVars == <<clock, memo, app_state, runs, last_run, memo_used, az>>

VARIABLES
    discovered,   \* listWorkspaces: the subscriptions, their listings and the set of Workspace
    listed        \* listWorkspaces: what it returned or that it raised

directoryVars == <<discovered, listed>>

VARIABLES
    sessions,     \* proxy.py: the session table, its entries in the order they were stored
    served        \* history: the calls of _session, each with what it found and did

tableVars == <<sessions, served>>

VARIABLES
    threads,      \* wrapper: per thread that calls it with the one key, where it is and what it holds
    stamped       \* history: the invocation whose death the key's Result holds

raceVars == <<threads, stamped>>

VARIABLES
    simple        \* simpleQuery: the last call, the workspaces it was given and what it queried

simpleVars == <<simple>>

VARIABLES
    round,        \* analyticsQuery: the call being followed, the first or the identical second one
    previous      \* history: the futures of the first call and the invocations counted when it returned

repeatVars == <<round, previous>>

VARIABLES
    held,         \* azcli.py: the list object a caller keeps and passes to azcli as cmd
    invoked       \* history: the last call of azcli with that list

callerVars == <<held, invoked>>

VARIABLES
    day_cache,    \* listWorkspaces: the Result its lru_cache holds, None before the first one
    outage,       \* history: when the Result was stored by a run whose validation failed in every chunk
    answered      \* history: the last call of listWorkspaces or globalQuery

dayVars == <<day_cache, outage, answered>>

vars ==
    <<cacheVars, queryVars, sessionVars, proxyVars, azcliVars, directoryVars,
      tableVars, raceVars, simpleVars, repeatVars, callerVars, dayVars>>

\* what a step of one component leaves alone
notCache ==
    <<queryVars, sessionVars, proxyVars, azcliVars, directoryVars, tableVars, raceVars,
      simpleVars, repeatVars, callerVars, dayVars>>
notQuery ==
    <<sessionVars, proxyVars, azcliVars, directoryVars, tableVars, raceVars,
      simpleVars, repeatVars, callerVars, dayVars>>
notSession ==
    <<cacheVars, queryVars, proxyVars, azcliVars, directoryVars, raceVars, simpleVars,
      repeatVars, callerVars, dayVars>>
notRace ==
    <<queryVars, sessionVars, proxyVars, azcliVars, directoryVars, tableVars,
      simpleVars, repeatVars, callerVars, dayVars>>
notProxy ==
    <<cacheVars, queryVars, sessionVars, azcliVars, directoryVars, tableVars, raceVars,
      simpleVars, repeatVars, callerVars, dayVars>>
notAzcli ==
    <<cacheVars, queryVars, sessionVars, proxyVars, directoryVars, tableVars, raceVars,
      simpleVars, repeatVars, callerVars, dayVars>>
notDirectory ==
    <<sessionVars, proxyVars, azcliVars, tableVars, raceVars, simpleVars, repeatVars,
      callerVars, dayVars>>
notSimple ==
    <<cacheVars, queryVars, sessionVars, proxyVars, azcliVars, directoryVars,
      tableVars, raceVars, repeatVars, callerVars, dayVars>>
notRepeat ==
    <<cacheVars, queryVars, sessionVars, proxyVars, azcliVars, directoryVars,
      tableVars, raceVars, simpleVars, callerVars, dayVars>>
notCaller ==
    <<cacheVars, queryVars, sessionVars, proxyVars, directoryVars, tableVars, raceVars,
      simpleVars, repeatVars, dayVars>>
notDay ==
    <<queryVars, sessionVars, proxyVars, azcliVars, directoryVars, tableVars, raceVars,
      simpleVars, repeatVars, callerVars>>

(***************************************************************************)
(* src/main.py: cache(maxsize, typed, ttl)                                 *)
(***************************************************************************)
Keys == 1..NumKeys

None == [none |-> TRUE]

\* class Result: a value and the time of its death, held under its lru key
Result(key, value, death) == [key |-> key, value |-> value, death |-> death]

\* death = time.monotonic() + ttl
Death(t, ttl) == t + ttl

\* if result.death < time.monotonic():
\* (mutants: the comparison reversed; the boundary counted as expired)
ExpiredReversed(death, t) == death > t

ExpiredAtDeath(death, t) == death <= t

Expired(death, t) == death < t

\* lru_cache lookup: the position of the key's entry, 0 on a miss
Find(store, key) ==
    IF \E i \in 1..Len(store) : store[i].key = key
    THEN CHOOSE i \in 1..Len(store) : store[i].key = key
    ELSE 0

Remove(store, i) == SubSeq(store, 1, i - 1) \o SubSeq(store, i + 1, Len(store))

\* a hit makes the entry the most recently used one
Touch(store, i) == Append(Remove(store, i), store[i])

\* a miss stores the new entry; a full cache drops its least recently used entry first
\* (mutant: the entry used last is dropped)
InsertDropLast(store, entry, maxsize) ==
    IF Find(store, entry.key) # 0 THEN store
    ELSE IF Len(store) >= maxsize THEN Append(SubSeq(store, 1, Len(store) - 1), entry)
    ELSE Append(store, entry)

Insert(store, entry, maxsize) ==
    IF Find(store, entry.key) # 0 THEN store
    ELSE IF Len(store) >= maxsize THEN Append(Tail(store), entry)
    ELSE Append(store, entry)

\* result.value = func(...); result.death = time.monotonic() + ttl
Overwrite(store, key, value, death) ==
    [i \in 1..Len(store) |->
        IF store[i].key = key THEN Result(key, value, death) ELSE store[i]]

\* the history of uses after cached_func found or stored the key
Use(history, key) ==
    LET Other(k) == k # key IN Append(SelectSeq(history, Other), key)

NoCall ==
    [key |-> 0, at |-> 0, done |-> 0, hit |-> FALSE, prior |-> None, known |-> None,
     invoked |-> 0, raised |-> FALSE, ret |-> None, size |-> 0]

\* wrapper(*args): one call with argument tuple `key`.  The wrapped function,
\* when it runs, takes d ticks and returns (ok) or raises; its n-th invocation
\* returns the value n.  A result computed on a miss is checked at the clock
\* reading that set its death, so with ttl >= 0 it is never expired at once.
wrapper(key, d, ok) ==
    LET i      == Find(cached_func, key)
        hit    == i # 0
        \* result = cached_func(*args, **kwargs)
        t1     == IF hit THEN now ELSE now + d
        n1     == IF hit THEN invocations ELSE invocations + 1
        raise1 == ~hit /\ ~ok
        result == IF hit THEN cached_func[i] ELSE Result(key, n1, Death(t1, Ttl))
        store1 == IF hit THEN Touch(cached_func, i)
                  ELSE IF raise1 THEN cached_func
                  ELSE Insert(cached_func, result, MaxSize)
        \* if result.death < time.monotonic():
        stale  == ~raise1 /\ Expired(result.death, t1)
        t2     == IF stale THEN t1 + d ELSE t1
        n2     == IF stale THEN n1 + 1 ELSE n1
        raise2 == stale /\ ~ok
        fresh  == Result(key, n2, Death(t2, Ttl))
        store2 == IF stale /\ ~raise2
                  THEN Overwrite(store1, key, fresh.value, fresh.death)
                  ELSE store1
        final  == IF stale THEN fresh ELSE result
        raised == raise1 \/ raise2
    IN  /\ n2 <= MaxInvocations
        /\ t2 <= MaxTime
        /\ now' = t2
        /\ invocations' = n2
        /\ cached_func' = store2
        /\ used' = IF raise1 THEN used ELSE Use(used, key)
        /\ computed' = IF n2 > invocations /\ ~raised
                       THEN [computed EXCEPT ![key] = final]
                       ELSE computed
        /\ call' = [key |-> key, at |-> now, done |-> t2, hit |-> hit,
                    prior |-> IF hit THEN cached_func[i] ELSE None,
                    known |-> computed[key],
                    invoked |-> n2 - invocations, raised |-> raised,
                    ret |-> IF raised THEN None ELSE final.value,
                    size |-> Len(cached_func)]
        /\ UNCHANGED notCache

Call == \E key \in Keys, d \in 0..MaxDur, ok \in BOOLEAN : wrapper(key, d, ok)

\* time passes between calls
Tick == /\ now < MaxTime
        /\ now' = now + 1
        /\ UNCHANGED <<cached_func, invocations, computed, call, used, notCache>>

(***************************************************************************)
(* src/main.py: wrapper, called by several threads with one key.  The      *)
(* threads share the Result that cached_func returns for the key, and a    *)
(* thread may be preempted between any two statements of wrapper.          *)
(***************************************************************************)
Threads == 1..NumThreads

\* the key the threads call wrapper with
RacedKey == 1

Idle == [pc |-> "call", value |-> 0, seen |-> 0, seen_stamp |-> 0, ret |-> 0]

NoThreads ==
    /\ threads = [t \in Threads |-> Idle]
    /\ stamped = 0

\* the Result cached_func holds for the key
Shared == cached_func[Find(cached_func, RacedKey)]

\* result = cached_func(*args); if result.death < time.monotonic():
Lookup(t) ==
    /\ threads[t].pc = "call"
    /\ Find(cached_func, RacedKey) # 0
    /\ threads' = [threads EXCEPT ![t] =
          [@ EXCEPT !.pc = IF Expired(Shared.death, now) THEN "invoke" ELSE "return",
                    !.seen = Shared.value, !.seen_stamp = stamped]]
    /\ UNCHANGED <<cacheVars, stamped, notRace>>

\* func(*args, **kwargs) returns, its n-th invocation the value n
Invoke(t) ==
    /\ threads[t].pc = "invoke"
    /\ invocations' = invocations + 1
    /\ threads' = [threads EXCEPT ![t] = [@ EXCEPT !.pc = "value", !.value = invocations + 1]]
    /\ UNCHANGED <<now, cached_func, computed, call, used, stamped, notRace>>

\* func(*args, **kwargs) raises, and so does wrapper
InvokeRaises(t) ==
    /\ threads[t].pc = "invoke"
    /\ invocations' = invocations + 1
    /\ threads' = [threads EXCEPT ![t] = [@ EXCEPT !.pc = "raised"]]
    /\ UNCHANGED <<now, cached_func, computed, call, used, stamped, notRace>>

\* result.value = <what func returned>
SetValue(t) ==
    /\ threads[t].pc = "value"
    /\ cached_func' = Overwrite(cached_func, RacedKey, threads[t].value, Shared.death)
    /\ threads' = [threads EXCEPT ![t] = [@ EXCEPT !.pc = "death"]]
    /\ UNCHANGED <<now, invocations, computed, call, used, stamped, notRace>>

\* result.death = time.monotonic() + ttl
SetDeath(t) ==
    /\ threads[t].pc = "death"
    /\ cached_func' = Overwrite(cached_func, RacedKey, Shared.value, Death(now, Ttl))
    /\ stamped' = threads[t].value
    /\ threads' = [threads EXCEPT ![t] = [@ EXCEPT !.pc = "return"]]
    /\ UNCHANGED <<now, invocations, computed, call, used, notRace>>

\* return result.value
ReturnValue(t) ==
    /\ threads[t].pc = "return"
    /\ threads' = [threads EXCEPT ![t] = [@ EXCEPT !.pc = "done", !.ret = Shared.value]]
    /\ UNCHANGED <<cacheVars, stamped, notRace>>

Thread ==
    \E t \in Threads :
        Lookup(t) \/ Invoke(t) \/ InvokeRaises(t) \/ SetValue(t) \/ SetDeath(t) \/ ReturnValue(t)

\* The key was computed by the first invocation at tick 0, and the clock has
\* passed its death.
StaleEntry ==
    /\ now = Ttl + 1
    /\ cached_func = <<Result(RacedKey, 1, Death(0, Ttl))>>
    /\ invocations = 1
    /\ computed = [k \in Keys |-> IF k = RacedKey THEN Result(RacedKey, 1, Death(0, Ttl)) ELSE None]
    /\ call = NoCall
    /\ used = <<RacedKey>>
    /\ threads = [t \in Threads |-> Idle]
    /\ stamped = 1

(***************************************************************************)
(* Claims about the decorator, over the last call of wrapper.              *)
(***************************************************************************)
Called == call.key # 0

\* C1 as claimed: once a call has computed and stored a value for a key,
\* every later call with that key before the ttl has elapsed returns that
\* value without invoking the wrapped function, and a call after the ttl has
\* elapsed invokes it exactly once and returns the new value.
C1_AsClaimed ==
    (Called /\ call.known # None) =>
        /\ call.at < call.known.death =>
              /\ call.invoked = 0
              /\ call.ret = call.known.value
        /\ call.at > call.known.death =>
              /\ call.invoked = 1
              /\ ~call.raised => call.ret = invocations

\* C1 as amended: the same, for a key whose entry is still held by the lru
\* cache.  The entry held is the one last computed for the key; a call
\* before its death returns its value and invokes nothing; a call after its
\* death invokes the wrapped function exactly once and, when that returns,
\* returns the new value and stores it with death = now + ttl.  A key stored
\* before is missing only when the cache was full.
C1_TtlWhileStored ==
    Called =>
        /\ call.hit =>
              /\ call.prior = call.known
              /\ call.at < call.prior.death =>
                    /\ call.invoked = 0
                    /\ ~call.raised
                    /\ call.ret = call.prior.value
              /\ call.at > call.prior.death =>
                    /\ call.invoked = 1
                    /\ ~call.raised =>
                          /\ call.ret = invocations
                          /\ call.ret # call.prior.value
        /\ (call.invoked = 1 /\ ~call.raised) =>
              /\ computed[call.key] = Result(call.key, call.ret, call.done + Ttl)
              /\ Find(cached_func, call.key) # 0
              /\ cached_func[Find(cached_func, call.key)] = computed[call.key]
        /\ (~call.hit /\ call.known # None) => call.size >= MaxSize

\* C1 witness: a call found its entry after the ttl had elapsed, invoked the
\* wrapped function once and returned the new value.
C1_Witness ==
    /\ Called /\ call.hit /\ call.at > call.prior.death
    /\ call.invoked = 1 /\ ~call.raised /\ call.ret = invocations

\* C2 as claimed: a call that finds an entry with now >= expiry (now = expiry
\* included) re-runs the wrapped function and overwrites the entry; a call
\* with now < expiry returns the cached value without recomputation.
C2_AsClaimed ==
    (Called /\ call.hit) =>
        /\ call.at >= call.prior.death => call.invoked = 1
        /\ call.at < call.prior.death =>
              call.invoked = 0 /\ call.ret = call.prior.value

\* C2 as amended: an entry is stale when now > expiry.  A call that finds an
\* entry with now > expiry re-runs the wrapped function before it returns
\* and overwrites the entry in place (the cache keeps its size and holds one
\* entry per key); a call with now <= expiry (now = expiry included) returns
\* the cached value with no recomputation.  No call returns a value whose
\* death lies before the call.
C2_StaleNeverReturned ==
    /\ \A i, j \in 1..Len(cached_func) :
          cached_func[i].key = cached_func[j].key => i = j
    /\ (Called /\ call.hit) =>
          /\ call.at > call.prior.death =>
                /\ call.invoked = 1
                /\ Len(cached_func) = call.size
                /\ ~call.raised =>
                      /\ cached_func[Len(cached_func)].key = call.key
                      /\ cached_func[Len(cached_func)].value = call.ret
                      /\ cached_func[Len(cached_func)].death >= call.done
          /\ call.at <= call.prior.death =>
                /\ call.invoked = 0
                /\ ~call.raised
                /\ call.ret = call.prior.value
    /\ (Called /\ ~call.raised) =>
          /\ computed[call.key].value = call.ret
          /\ computed[call.key].death >= call.at

\* C2 witness: a call made exactly at the entry's death returned the cached
\* value without recomputation.
C2_Witness ==
    /\ Called /\ call.hit /\ call.at = call.prior.death
    /\ call.invoked = 0 /\ call.ret = call.prior.value

\* every thread has left wrapper
Quiet == \A t \in Threads : threads[t].pc \in {"done", "raised"}

\* C23: when several callers concurrently read the same key past its expiry,
\* duplicate recomputation may happen, but the entry's (value, expiry) pair is
\* replaced atomically: no reader observes, and the cache never ends up
\* holding, a value paired with an expiry written by a different
\* recomputation, and no caller returns a value computed before the expiry it
\* raced past.
C23_AtomicReplace ==
    /\ \A t \in Threads :
          threads[t].pc # "call" => threads[t].seen = threads[t].seen_stamp
    /\ Quiet => Shared.value = stamped
    /\ \A t \in Threads : threads[t].pc = "done" => threads[t].ret > 1

\* the decorator has just been applied: nothing is cached
ColdCache ==
    /\ now = 0
    /\ cached_func = <<>>
    /\ invocations = 0
    /\ computed = [k \in Keys |-> None]
    /\ call = NoCall
    /\ used = <<>>
    /\ NoThreads


(***************************************************************************)
(* src/main.py: azcli and analyticsQuery                                   *)
(***************************************************************************)
\* @cache(): azcli is memoized with the decorator's defaults
AzMaxSize == 2000
AzTtl == 300

chunkSize == 30

Min(a, b) == IF a < b THEN a ELSE b

\* sorted(workspaces): the same ids in ascending order; its k-th element is
\* the id with fewer than k ids below it and at least k ids not above it
sorted(s) ==
    [k \in 1..Len(s) |->
        CHOOSE v \in {s[i] : i \in 1..Len(s)} :
            /\ Cardinality({i \in 1..Len(s) : s[i] < v}) < k
            /\ Cardinality({i \in 1..Len(s) : s[i] <= v}) >= k]

\* range(start, stop, step)
RECURSIVE range(_, _, _)
range(start, stop, step) ==
    IF start >= stop THEN <<>> ELSE <<start>> \o range(start + step, stop, step)

\* s[x:y]
Slice(s, x, y) == SubSeq(s, x + 1, Min(y, Len(s)))

\* [sorted(workspaces)[x:x+chunkSize] for x in range(0, len(workspaces), chunkSize)]
ChunksOverlapping(ws) ==
    LET xs == range(0, Len(ws), chunkSize - 1)
        ss == sorted(ws)
    IN  [k \in 1..Len(xs) |-> Slice(ss, xs[k], xs[k] + chunkSize)]

Chunks(ws) ==
    LET xs == range(0, Len(ws), chunkSize)
        ss == sorted(ws)
    IN  [k \in 1..Len(xs) |-> Slice(ss, xs[k], xs[k] + chunkSize)]

\* The lists analyticsQuery is called with: n ids, given in descending order,
\* all distinct (r >= n) or repeating with period r.
WsList(n, r) == [i \in 1..n |-> ((n - i) % r) + 1]

Repeats == {1, 2, MaxN + 1}

\* What one run of the az command prints for a chunk: nothing (azcli returns
\* None) or a JSON list of rows; a row names the chunk's primary workspace.
Rows(chunk, k) == [j \in 1..k |-> <<chunk[1], j>>]

Json(rows) == [rows |-> rows]

Printed(chunk) == {None} \cup {Json(Rows(chunk, k)) : k \in 0..MaxRows}

Future(cmd, state, value) == [cmd |-> cmd, state |-> state, value |-> value]

AllSubmitted == Len(results) = Len(chunks)

AllDone == \A i \in 1..Len(results) : results[i].state \in {"ok", "err"}

\* analyticsQuery(workspaces, query): lines 58-60
Enter ==
    /\ pc = "idle"
    /\ pc' = "submit"
    /\ chunks' = Chunks(workspaces)
    /\ results' = <<>>
    /\ output' = <<>>
    /\ collected' = 0
    /\ finished' = <<>>
    /\ UNCHANGED <<workspaces, cacheVars, notQuery>>

\* results.append(executor.submit(azcli, *cmd)): the command is keyed by its
\* chunk (the query and the timespan are the same for every chunk)
Submit ==
    /\ pc = "submit"
    /\ ~AllSubmitted
    /\ results' = Append(results, Future(chunks[Len(results) + 1], "pending", None))
    /\ UNCHANGED <<workspaces, chunks, output, pc, collected, finished, cacheVars, notQuery>>

\* A pool thread takes future i and calls azcli(*cmd): a fresh cache entry
\* answers at once, otherwise the az command is started.
Start(i) ==
    /\ results[i].state = "pending"
    /\ LET cmd == results[i].cmd
           e   == Find(cached_func, cmd)
           hit == e # 0 /\ ~Expired(cached_func[e].death, now)
       IN  /\ cached_func' = IF e # 0 THEN Touch(cached_func, e) ELSE cached_func
           /\ invocations' = IF hit THEN invocations ELSE invocations + 1
           /\ results' = [results EXCEPT ![i] =
                  IF hit THEN Future(cmd, "ok", cached_func[e].value)
                  ELSE Future(cmd, "running", None)]
           /\ finished' = IF hit THEN Append(finished, i) ELSE finished
           /\ used' = IF e # 0 THEN Use(used, cmd) ELSE used
    /\ UNCHANGED <<workspaces, chunks, output, pc, collected, now, computed, call, notQuery>>

\* The az command of future i ends with an error: check_output raises, nothing
\* is stored and the future holds the exception.
\* (mutant: the failure is stored as a result of the command)
FailCached(i) ==
    /\ results[i].state = "running"
    /\ results' = [results EXCEPT ![i].state = "err"]
    /\ finished' = Append(finished, i)
    /\ cached_func' = Insert(cached_func, Result(results[i].cmd, None, Death(now, AzTtl)),
                             AzMaxSize)
    /\ UNCHANGED <<workspaces, chunks, output, pc, collected, now, invocations, computed,
                   call, used, notQuery>>

Fail(i) ==
    /\ results[i].state = "running"
    /\ results' = [results EXCEPT ![i].state = "err"]
    /\ finished' = Append(finished, i)
    /\ UNCHANGED <<workspaces, chunks, output, pc, collected, cacheVars, notQuery>>

\* The az command of future i prints its result: azcli returns it, and the
\* decorator stores it (a miss) or overwrites the expired entry.
Finish(i) ==
    /\ results[i].state = "running"
    /\ \E value \in Printed(results[i].cmd) :
          LET cmd   == results[i].cmd
              entry == Result(cmd, value, Death(now, AzTtl))
          IN  /\ cached_func' =
                    IF Find(cached_func, cmd) = 0
                    THEN Insert(cached_func, entry, AzMaxSize)
                    ELSE IF Expired(cached_func[Find(cached_func, cmd)].death, now)
                    THEN Overwrite(cached_func, cmd, entry.value, entry.death)
                    ELSE cached_func
              /\ results' = [results EXCEPT ![i] = Future(cmd, "ok", value)]
              /\ used' = IF Find(cached_func, cmd) = 0 THEN Use(used, cmd) ELSE used
    /\ finished' = Append(finished, i)
    /\ UNCHANGED <<workspaces, chunks, output, pc, collected, now, invocations,
                   computed, call, notQuery>>

Worker == \E i \in 1..Len(results) : Start(i) \/ Fail(i) \/ Finish(i)

\* Leaving `with ThreadPoolExecutor() as executor` waits for every future.
\* (mutant: the block is left as soon as every chunk is submitted)
ShutdownNoWait ==
    /\ pc = "submit"
    /\ AllSubmitted
    /\ pc' = "collect"
    /\ UNCHANGED <<workspaces, chunks, results, output, collected, finished, cacheVars, notQuery>>

Shutdown ==
    /\ pc = "submit"
    /\ AllSubmitted
    /\ AllDone
    /\ pc' = "collect"
    /\ UNCHANGED <<workspaces, chunks, results, output, collected, finished, cacheVars, notQuery>>

\* for future in results: the k-th future visited
VisitCompleted(k) == finished[k]

Visit(k) == k

\* try: output += future.result()  except Exception as e: print(e)
\* future.result() re-raises the exception of a failed invocation, and
\* output += None raises TypeError; both are caught and the future adds nothing.
Raises(future) == future.state = "err" \/ future.value = None

CollectNoExcept ==
    /\ pc = "collect"
    /\ collected < Len(results)
    /\ LET future == results[Visit(collected + 1)]
       IN  IF Raises(future)
           THEN pc' = "raised" /\ UNCHANGED output
           ELSE output' = output \o future.value.rows /\ UNCHANGED pc
    /\ collected' = collected + 1
    /\ UNCHANGED <<workspaces, chunks, results, finished, cacheVars, notQuery>>

Collect ==
    /\ pc = "collect"
    /\ collected < Len(results)
    /\ LET future == results[Visit(collected + 1)]
       IN  output' = IF Raises(future) THEN output ELSE output \o future.value.rows
    /\ collected' = collected + 1
    /\ UNCHANGED <<workspaces, chunks, results, pc, finished, cacheVars, notQuery>>

\* return output
Return ==
    /\ pc = "collect"
    /\ collected = Len(results)
    /\ pc' = "done"
    /\ UNCHANGED <<workspaces, chunks, results, output, collected, finished, cacheVars, notQuery>>

\* analyticsQuery has been called once
NoRepeat ==
    /\ round = 1
    /\ previous = None

\* The first call has returned, and analyticsQuery is called again with the
\* same workspaces and query while the cache holds what the first call stored.
Repeat ==
    /\ pc = "done"
    /\ round = 1
    /\ round' = 2
    /\ previous' = [results |-> results, invocations |-> invocations]
    /\ chunks' = <<>>
    /\ results' = <<>>
    /\ output' = <<>>
    /\ collected' = 0
    /\ finished' = <<>>
    /\ pc' = "idle"
    /\ UNCHANGED <<workspaces, cacheVars, sessionVars, proxyVars, azcliVars, directoryVars,
                   tableVars, raceVars, simpleVars, callerVars, dayVars>>

(***************************************************************************)
(* Claims about analyticsQuery.                                            *)
(***************************************************************************)
CeilDiv(a, b) == (a + b - 1) \div b

Ids(s) == {s[i] : i \in 1..Len(s)}

Occurrences(s, v) == Cardinality({i \in 1..Len(s) : s[i] = v})

RECURSIVE Flatten(_)
Flatten(ss) == IF ss = <<>> THEN <<>> ELSE Head(ss) \o Flatten(Tail(ss))

Chunked == pc # "idle"

\* C3 as claimed: a list of N workspace ids is partitioned into ceil(N/30)
\* chunks of at most 30 ids each, the union of the chunks' ids is the set of
\* the input's ids, and no id appears in two chunks.
C3_AsClaimed ==
    Chunked =>
        /\ Len(chunks) = CeilDiv(Len(workspaces), chunkSize)
        /\ \A c \in 1..Len(chunks) : Len(chunks[c]) <= chunkSize
        /\ UNION {Ids(chunks[c]) : c \in 1..Len(chunks)} = Ids(workspaces)
        /\ \A c, d \in 1..Len(chunks) :
              c # d => Ids(chunks[c]) \cap Ids(chunks[d]) = {}

\* C3 as amended: a list of N workspace ids is cut into ceil(N/30) chunks,
\* each of 1 to 30 ids; the chunks, one after the other, are the input's ids
\* in ascending order, each id as often as the input holds it (so the union
\* of the chunks' ids is the input's set of ids); an id appears in two chunks
\* only when the input holds it more than once, so no id of a list of
\* distinct ids appears in two chunks.
C3_Chunking ==
    Chunked =>
        LET all == Flatten(chunks) IN
        /\ Len(chunks) = CeilDiv(Len(workspaces), chunkSize)
        /\ \A c \in 1..Len(chunks) :
              Len(chunks[c]) >= 1 /\ Len(chunks[c]) <= chunkSize
        /\ Len(all) = Len(workspaces)
        /\ \A i \in 1..Len(all) - 1 : all[i] <= all[i + 1]
        /\ \A v \in Ids(workspaces) \cup Ids(all) :
              Occurrences(all, v) = Occurrences(workspaces, v)
        /\ UNION {Ids(chunks[c]) : c \in 1..Len(chunks)} = Ids(workspaces)
        /\ \A c, d \in 1..Len(chunks) :
              \A v \in Ids(chunks[c]) \cap Ids(chunks[d]) :
                  c # d => Occurrences(workspaces, v) > 1

\* C3 witness: a list of 61 distinct ids was cut into chunks of 30, 30 and 1.
C3_Witness ==
    /\ Chunked
    /\ Len(workspaces) = 2 * chunkSize + 1
    /\ Cardinality(Ids(workspaces)) = Len(workspaces)
    /\ Len(chunks) = 3
    /\ Len(chunks[3]) = 1

Succeeded == {i \in 1..Len(results) : results[i].state = "ok" /\ results[i].value # None}

RECURSIVE TotalRows(_)
TotalRows(fs) ==
    IF fs = {} THEN 0
    ELSE LET i == CHOOSE i \in fs : TRUE
         IN  Len(results[i].value.rows) + TotalRows(fs \ {i})

\* C4: whichever chunks' invocations fail, analyticsQuery does not raise and
\* returns the rows of the chunks that succeeded and no others; when every
\* chunk fails it returns the empty sequence.
C4_PartialFailure ==
    /\ pc # "raised"
    /\ pc = "done" =>
          /\ Len(output) = TotalRows(Succeeded)
          /\ \A i \in Succeeded : Ids(results[i].value.rows) \subseteq Ids(output)
          /\ \A p \in 1..Len(output) :
                \E i \in Succeeded : output[p] \in Ids(results[i].value.rows)
          /\ (\A i \in 1..Len(results) : results[i].state = "err") => output = <<>>

\* C4 witness: a query returned rows although one of its chunks failed.
C4_Witness ==
    /\ pc = "done"
    /\ \E i \in 1..Len(results) : results[i].state = "err"
    /\ output # <<>>

\* C5: the rows returned are the successful chunks' rows in submission order,
\* the order of the sorted-workspace chunks, whatever the order in which the
\* invocations completed.
C5_SubmissionOrder ==
    pc = "done" =>
        output = Flatten([i \in 1..Len(results) |->
                     IF i \in Succeeded THEN results[i].value.rows ELSE <<>>])

\* C5 witness: two chunks completed in the reverse of their submission order
\* and both returned rows.
C5_Witness ==
    /\ pc = "done"
    /\ \E a, b \in 1..Len(finished) :
          /\ a < b
          /\ finished[a] > finished[b]
          /\ finished[a] \in Succeeded /\ results[finished[a]].value.rows # <<>>
          /\ finished[b] \in Succeeded /\ results[finished[b]].value.rows # <<>>
          /\ results[finished[a]].cmd # results[finished[b]].cmd


\* C24: analyticsQuery submits one command per chunk to the worker pool and
\* returns only after every submitted chunk invocation has completed
\* (successfully or with an error); if every chunk invocation eventually
\* terminates then analyticsQuery eventually returns, and no chunk invocation
\* is still running when it returns.
C24_Completion ==
    /\ [](pc \in {"collect", "done"} =>
             /\ Len(results) = Len(chunks)
             /\ \A i \in 1..Len(results) :
                   /\ results[i].cmd = chunks[i]
                   /\ results[i].state \in {"ok", "err"})
    /\ <>(pc = "done")

\* C24 witness: a query of three chunks returned, one of its invocations
\* having failed and one having succeeded.
C24_Witness ==
    /\ pc = "done"
    /\ Len(chunks) = 3
    /\ \E i \in 1..Len(results) : results[i].state = "err"
    /\ \E i \in 1..Len(results) : results[i].state = "ok"

\* the chunks of the first call that failed
FailedBefore == {i \in 1..Len(previous.results) : previous.results[i].state = "err"}

\* the second call has returned
Repeated == round = 2 /\ pc = "done"

\* a pool thread starts the az command of future i
Executes(i) ==
    /\ i <= Len(results')
    /\ results[i].state = "pending"
    /\ results'[i].state = "running"

\* the az command of some future ends with an error
Fails ==
    \E i \in 1..Len(results) :
        i <= Len(results') /\ results[i].state = "running" /\ results'[i].state = "err"

\* no two chunks of the call are the same command
DistinctChunks ==
    \A i, j \in 1..Len(chunks) : i # j => chunks[i] # chunks[j]

\* C26 (as stated): an azcli call that raises stores no entry, so when an
\* identical analyticsQuery is repeated within the cache TTL after a partial
\* failure, the external command is executed again for exactly the chunks
\* that previously failed and for none of the chunks that previously
\* succeeded.
C26_AsClaimed ==
    /\ [][Fails => cached_func' = cached_func]_vars
    /\ [][\A i \in 1..Len(results) :
             (round = 2 /\ Executes(i)) => i \in FailedBefore]_vars
    /\ [](Repeated => invocations - previous.invocations = Cardinality(FailedBefore))

\* C26 (amended): the same, for a query no two chunks of which are the same
\* command, repeated with no other call of azcli in between.  Chunks that are
\* the same command share one cache entry.
C26_FailuresNotCached ==
    /\ [][Fails => cached_func' = cached_func]_vars
    /\ [][\A i \in 1..Len(results) :
             (round = 2 /\ DistinctChunks /\ Executes(i)) => i \in FailedBefore]_vars
    /\ []((Repeated /\ DistinctChunks) =>
             invocations - previous.invocations = Cardinality(FailedBefore))

\* C26 witness: a query of three different chunks was repeated after one of
\* its chunks had failed and another had succeeded, and ran one command again.
C26_Witness ==
    /\ Repeated
    /\ DistinctChunks
    /\ Len(chunks) = 3
    /\ Cardinality(FailedBefore) = 1
    /\ invocations = previous.invocations + 1

(***************************************************************************)
(* src/siem_query_utils/proxy.py: default_session, encode_session and      *)
(* load_session (src/siem_query_utils/azcli.py holds the same code).       *)
(*                                                                         *)
(* A dict is a sequence of <<key, value>> pairs with distinct keys, in     *)
(* insertion order.                                                        *)
(***************************************************************************)
\* a JSON string
Str(s) == [str |-> s]

\* default_session
default_session ==
    << <<"proxy_httpbin", [base_url |-> "https://httpbin.org"]>>,
       <<"proxy_jupyter", [base_url |-> "https://wagov.github.io/wasoc-jupyterlite"]>>,
       <<"main_path", Str("/jupyter/lab/index.html")>> >>

\* The keys of the model's configurations, in the order Python compares strings.
KeysInOrder == <<"main_path", "proxy_httpbin", "proxy_jupyter", "proxy_x">>

KeyRank(key) == CHOOSE r \in 1..Len(KeysInOrder) : KeysInOrder[r] = key

\* item.startswith("proxy_")
IsProxy(key) == key \in {"proxy_httpbin", "proxy_jupyter", "proxy_x"}

\* item.replace("proxy_", "", 1)
ApiName(key) ==
    CASE key = "proxy_httpbin" -> "httpbin"
      [] key = "proxy_jupyter" -> "jupyter"
      [] key = "proxy_x" -> "x"

\* The entries a blob may carry: a redirect path, and a proxy whose
\* parameters httpx_cache.Client accepts or does not accept.
BlobValues(key) ==
    IF key = "main_path" THEN {Str("/jupyter/lab/index.html"), Str("/x")}
    ELSE {[base_url |-> "https://x.example"],
          [base_url |-> "https://x.example", bogus |-> "1"]}

BlobKeys == {"main_path", "proxy_x"}

\* The texts of JSON objects over these entries: every order of every choice
\* of keys.
ObjectTexts ==
    {t \in UNION {[1..n -> {<<k, v>> : k \in BlobKeys,
                                      v \in BlobValues("main_path") \cup BlobValues("proxy_x")}]
                  : n \in 0..Cardinality(BlobKeys)} :
        /\ \A i \in 1..Len(t) : t[i][2] \in BlobValues(t[i][1])
        /\ \A i, j \in 1..Len(t) : t[i][1] = t[j][1] => i = j}

\* base64.b64encode(text.encode("utf8"))
b64encode(text) == [b64 |-> text]

\* The blobs load_session is called with: the base64 of a JSON object, the
\* base64 of text that is no JSON, and a string that is no base64.
Blobs ==
    {b64encode([json |-> t]) : t \in ObjectTexts}
        \cup {b64encode([garbled |-> TRUE]), [notb64 |-> TRUE]}

\* base64.b64decode(data) and json.loads(text) raise on malformed input
Decodes(data) == "b64" \in DOMAIN data /\ "json" \in DOMAIN data.b64

\* json.loads(base64.b64decode(data)): the object as a dict
loads_b64decode(data) == data.b64.json

Has(d, key) == \E i \in 1..Len(d) : d[i][1] = key

Get(d, key) == d[CHOOSE i \in 1..Len(d) : d[i][1] = key][2]

\* d[key] = value: in place for a key the dict holds, appended otherwise
Set(d, key, value) ==
    IF Has(d, key)
    THEN [i \in 1..Len(d) |-> IF d[i][1] = key THEN <<key, value>> ELSE d[i]]
    ELSE Append(d, <<key, value>>)

\* d.update(other)
RECURSIVE update(_, _)
update(d, other) ==
    IF other = <<>> THEN d
    ELSE update(Set(d, Head(other)[1], Head(other)[2]), Tail(other))

\* json.dumps(session, sort_keys=True): the items in the order of their keys
\* (mutant: the items as the dict holds them)
dumps_unsorted(d) == [json |-> d]

dumps(d) ==
    [json |-> [k \in 1..Len(d) |->
        d[CHOOSE i \in 1..Len(d) :
            Cardinality({j \in 1..Len(d) : KeyRank(d[j][1]) < KeyRank(d[i][1])}) = k - 1]]]

\* encode_session(session)
encode_session(session) == b64encode(dumps(session))

\* hashlib.sha256(data).hexdigest(), taken to be free of collisions
sha256(data) == [sha256 |-> data]

\* httpx_cache.Client(**proxy, timeout=None) accepts these parameters only
ClientParameters == {"base_url", "params", "headers", "cookies"}

\* (mutant: the proxy items are not validated)
httpx_client_unchecked(proxy) == TRUE

httpx_client_ok(proxy) == DOMAIN proxy \subseteq ClientParameters

\* {item.replace("proxy_", "", 1): data["base_url"]} for the proxy items
Apis(cfg) ==
    LET proxies == {i \in 1..Len(cfg) : IsProxy(cfg[i][1])}
    IN  [name \in {ApiName(cfg[i][1]) : i \in proxies} |->
            cfg[CHOOSE i \in proxies : ApiName(cfg[i][1]) = name][2].base_url]

\* What load_session(data) returns or raises when the shared dict holds cfg:
\* the session, HTTPException(500) for a blob that does not decode, or the
\* exception of a proxy item httpx_client rejects.
Merged(cfg, data) == update(cfg, loads_b64decode(data))

Loaded(cfg, data) ==
    IF ~Decodes(data)
    THEN [raised |-> "HTTPException(500, Failed to load session data)"]
    ELSE LET merged == Merged(cfg, data)
         IN  IF \E i \in 1..Len(merged) :
                    IsProxy(merged[i][1]) /\ ~httpx_client_ok(merged[i][2])
             THEN [raised |-> "TypeError"]
             ELSE [session |-> merged,
                   base64 |-> encode_session(merged),
                   key |-> sha256(encode_session(merged)),
                   apis |-> Apis(merged)]

\* session["session"] is the dict `config` itself, not a copy of it: the
\* "session" of every entry of the table is what the shared dict now holds.
Aliased(table, cfg) == [n \in 1..Len(table) |-> [table[n] EXCEPT !.session = cfg]]

\* load_session(data): config.update(...) changes the dict the parameter
\* defaults to, which every call shares, before the proxies are validated.
load_session(data) ==
    /\ Len(loads) < MaxLoads
    /\ config' = IF Decodes(data) THEN Merged(config, data) ELSE config
    /\ loads' = Append(loads, [data |-> data, session |-> Loaded(config, data)])
    /\ sessions' = Aliased(sessions, config')
    /\ UNCHANGED <<served, notSession>>

LoadSession == \E data \in Blobs : load_session(data)

\* sessions.get(key, {}) and `key in sessions`
InTable(table, key) == \E n \in 1..Len(table) : table[n].key = key

EntryOfKey(table, key) == table[CHOOSE n \in 1..Len(table) : table[n].key = key]

\* the keys of the dict load_session returns, which is what the table holds
EntryFields == {"session", "base64", "apis", "key"}

\* _session, line 41: the session is loaded when the request carries no key,
\* or when "main_path" is not in the entry of the key it carries
must_load(table, carried) ==
    \/ carried = None
    \/ "main_path" \notin (IF InTable(table, carried) THEN EntryFields ELSE {})

\* _session(request) for a request whose session cookie carries the key
\* `carried` (None: no key), with boot returning the secret `data`.
_session(carried, data) ==
    LET loaded  == Loaded(config, data)
        cfg     == IF Decodes(data) THEN Merged(config, data) ELSE config
        aliased == Aliased(sessions, cfg)
        ok      == "key" \in DOMAIN loaded
        table   == IF ok /\ ~InTable(aliased, loaded.key)
                   THEN Append(aliased, loaded) ELSE aliased
    IN  IF must_load(sessions, carried)
        THEN /\ Len(loads) < MaxLoads
             /\ config' = cfg
             /\ loads' = Append(loads, [data |-> data, session |-> loaded])
             /\ sessions' = table
             /\ served' = Append(served,
                    [carried |-> carried, present |-> InTable(sessions, carried),
                     decoded |-> TRUE,
                     key |-> IF ok THEN loaded.key ELSE carried,
                     outcome |-> IF ok
                                 THEN [returned |-> EntryOfKey(table, loaded.key).session]
                                 ELSE loaded])
             /\ UNCHANGED notSession
        ELSE /\ Len(served) < MaxLoads
             /\ served' = Append(served,
                    [carried |-> carried, present |-> TRUE, decoded |-> FALSE,
                     key |-> carried,
                     outcome |-> [returned |-> EntryOfKey(sessions, carried).session]])
             /\ UNCHANGED <<config, loads, sessions, notSession>>

\* the keys a request's session cookie may carry: none, or the key of an
\* entry of the table
Carried == {None} \cup {sessions[n].key : n \in 1..Len(sessions)}

Session == \E carried \in Carried, data \in Blobs : _session(carried, data)

\* the module has just been imported
FreshSessions ==
    /\ config = default_session
    /\ loads = <<>>
    /\ sessions = <<>>
    /\ served = <<>>

(***************************************************************************)
(* Claims about load_session.                                              *)
(***************************************************************************)
Returned(i) == "key" \in DOMAIN loads[i].session

\* The merged configuration a blob normalizes to: the default configuration
\* overridden by the blob's entries, in canonical serialization.
Normalized(data) == dumps(update(default_session, loads_b64decode(data)))

Raised(i) == "raised" \in DOMAIN loads[i].session

Malformed(data) == "b64" \notin DOMAIN data \/ "json" \notin DOMAIN data.b64

\* every proxy item of the configuration is one a client is constructed from
AllProxiesConstruct(cfg) ==
    \A n \in 1..Len(cfg) :
        IsProxy(cfg[n][1]) =>
            DOMAIN cfg[n][2] \subseteq {"base_url", "params", "headers", "cookies"}

\* C12 (as stated): every load_session call returns a session whose every
\* proxy item constructed a client, or fails with the "failed to load
\* session" error, for a malformed blob and for a proxy item that does not
\* construct alike.
C12_AsClaimed ==
    \A i \in 1..Len(loads) :
        \/ Returned(i) /\ AllProxiesConstruct(loads[i].session.session)
        \/ loads[i].session = [raised |-> "HTTPException(500, Failed to load session data)"]

\* C12 (amended): every load_session call returns a session whose every
\* proxy item constructed a client, or raises and returns nothing: the
\* "failed to load session" error for a blob that is no base64 or no JSON,
\* the exception of the client's constructor for a proxy item that does not
\* construct.
C12_AllOrNothing ==
    \A i \in 1..Len(loads) :
        /\ Returned(i) <=> ~Raised(i)
        /\ Returned(i) => AllProxiesConstruct(loads[i].session.session)
        /\ Malformed(loads[i].data) =>
              loads[i].session = [raised |-> "HTTPException(500, Failed to load session data)"]
        /\ (Raised(i) /\ ~Malformed(loads[i].data)) =>
              loads[i].session = [raised |-> "TypeError"]

\* a blob with a good proxy item was loaded, then one with a proxy item that
\* does not construct was refused, then one that is no JSON
C12_Witness ==
    /\ Len(loads) = 3
    /\ Returned(1) /\ Has(loads[1].session.session, "proxy_x")
    /\ loads[2].session = [raised |-> "TypeError"]
    /\ Malformed(loads[3].data) /\ Raised(3)

\* C6: any two load_session calls of one process that are given
\* byte-identical blobs return sessions with the identical key, whatever
\* blobs were resolved before or between them.
C6_SameBlobSameKey ==
    \A i, j \in 1..Len(loads) :
        (Returned(i) /\ Returned(j) /\ loads[i].data = loads[j].data)
            => loads[i].session.key = loads[j].session.key

\* C7: resolving two different blobs that normalize to the same merged
\* configuration (different key order, with or without entries equal to the
\* defaults) yields the same session key.
C7_SameConfigSameKey ==
    \A i, j \in 1..Len(loads) :
        (/\ Returned(i) /\ Returned(j)
         /\ loads[i].data # loads[j].data
         /\ Normalized(loads[i].data) = Normalized(loads[j].data))
            => loads[i].session.key = loads[j].session.key

\* the keys of a dict
KeysIn(d) == {d[n][1] : n \in 1..Len(d)}

\* C20: for every load_session call, the resulting configuration equals the
\* hard-coded default configuration (httpbin proxy, jupyter proxy, default
\* redirect path) shallowly overridden by the decoded blob, and contains no
\* key that is in neither the default nor that blob, regardless of which
\* blobs earlier calls resolved.
C20_MergeOfDefault ==
    \A i \in 1..Len(loads) :
        Returned(i) =>
            /\ dumps(loads[i].session.session) = Normalized(loads[i].data)
            /\ KeysIn(loads[i].session.session) \subseteq
                  KeysIn(default_session) \cup KeysIn(loads_b64decode(loads[i].data))

\* C21: in every reachable state, every entry stored in the session table
\* under key K has a configuration whose canonical (key-sorted) serialization
\* hashes to K, and its apis map lists exactly the proxy entries of that
\* configuration; later load_session calls never change the content of an
\* entry already stored.
C21_TableInvariant ==
    /\ [](\A n \in 1..Len(sessions) :
             /\ sha256(encode_session(sessions[n].session)) = sessions[n].key
             /\ sessions[n].apis = Apis(sessions[n].session))
    /\ [][\A n \in 1..Len(sessions) : sessions'[n] = sessions[n]]_vars

\* C22: a request whose session cookie carries a key already present in the
\* session table is served from that table entry, without re-decoding the
\* blob and without replacing the key stored in the request's session.
C22_ServedFromTable ==
    \A i \in 1..Len(served) :
        served[i].present =>
            /\ ~served[i].decoded
            /\ served[i].key = served[i].carried

\* the shared configuration after the first k calls, had the calls that
\* failed among them never happened
RECURSIVE Survived(_)
Survived(k) ==
    IF k = 0 THEN default_session
    ELSE IF Returned(k) THEN Merged(Survived(k - 1), loads[k].data)
    ELSE Survived(k - 1)

\* C27: a load_session call that fails (malformed blob, or a proxy entry
\* whose client construction fails) leaves the default configuration
\* unchanged, so every later call returns, or fails, as if the failed call
\* had never happened.
C27_FailedLoadChangesNothing ==
    /\ config = Survived(Len(loads))
    /\ \A j \in 1..Len(loads) :
          loads[j].session = Loaded(Survived(j - 1), loads[j].data)

(***************************************************************************)
(* src/siem_query_utils/proxy.py: client, filter_headers and upstream.     *)
(*                                                                         *)
(* A string the handler inspects is a sequence of characters; headers are  *)
(* a sequence of <<name, value>> pairs.                                    *)
(***************************************************************************)
\* the characters of the strings of the configuration
Text(string) ==
    CASE string = "https://httpbin.org" -> <<"h", "t", "t", "p", "s", ":", "/", "/", "h", "t", "t", "p", "b", "i", "n", ".", "o", "r", "g">>
      [] string = "https://wagov.github.io/wasoc-jupyterlite" -> <<"h", "t", "t", "p", "s", ":", "/", "/", "w", "a", "g", "o", "v", ".", "g", "i", "t", "h", "u", "b", ".", "i", "o", "/", "w", "a", "s", "o", "c", "-", "j", "u", "p", "y", "t", "e", "r", "l", "i", "t", "e">>
      [] string = "httpbin" -> <<"h", "t", "t", "p", "b", "i", "n">>
      [] string = "jupyter" -> <<"j", "u", "p", "y", "t", "e", "r">>
      [] string = "nope" -> <<"n", "o", "p", "e">>
      [] string = " does not have a valid configuration, see /proxy/apis for valid prefixes." -> <<" ", "d", "o", "e", "s", " ", "n", "o", "t", " ", "h", "a", "v", "e", " ", "a", " ", "v", "a", "l", "i", "d", " ", "c", "o", "n", "f", "i", "g", "u", "r", "a", "t", "i", "o", "n", ",", " ", "s", "e", "e", " ", "/", "p", "r", "o", "x", "y", "/", "a", "p", "i", "s", " ", "f", "o", "r", " ", "v", "a", "l", "i", "d", " ", "p", "r", "e", "f", "i", "x", "e", "s", ".">>
      [] string = "KEYVAULT_SESSION_SECRET not available" -> <<"K", "E", "Y", "V", "A", "U", "L", "T", "_", "S", "E", "S", "S", "I", "O", "N", "_", "S", "E", "C", "R", "E", "T", " ", "n", "o", "t", " ", "a", "v", "a", "i", "l", "a", "b", "l", "e">>
      [] string = "Failed to load session data" -> <<"F", "a", "i", "l", "e", "d", " ", "t", "o", " ", "l", "o", "a", "d", " ", "s", "e", "s", "s", "i", "o", "n", " ", "d", "a", "t", "a">>
      [] string = "Redirect to " -> <<"R", "e", "d", "i", "r", "e", "c", "t", " ", "t", "o", " ">>
      [] string = " not allowed." -> <<" ", "n", "o", "t", " ", "a", "l", "l", "o", "w", "e", "d", ".">>
      [] string = "Internal Server Error" -> <<"I", "n", "t", "e", "r", "n", "a", "l", " ", "S", "e", "r", "v", "e", "r", " ", "E", "r", "r", "o", "r">>
      [] string = "Workspace(subscription='" -> <<"W", "o", "r", "k", "s", "p", "a", "c", "e", "(", "s", "u", "b", "s", "c", "r", "i", "p", "t", "i", "o", "n", "=", "'">>
      [] string = "', customerId='" -> <<"'", ",", " ", "c", "u", "s", "t", "o", "m", "e", "r", "I", "d", "=", "'">>
      [] string = "', resourceGroup='" -> <<"'", ",", " ", "r", "e", "s", "o", "u", "r", "c", "e", "G", "r", "o", "u", "p", "=", "'">>
      [] string = "', name='" -> <<"'", ",", " ", "n", "a", "m", "e", "=", "'">>
      [] string = "')" -> <<"'", ")">>
      [] string = "/proxy/apis" -> <<"/", "p", "r", "o", "x", "y", "/", "a", "p", "i", "s">>

UpperCase == <<"A", "B", "C", "D", "E", "F", "G", "H", "I", "J", "K", "L", "M", "N", "O", "P", "Q", "R", "S", "T", "U", "V", "W", "X", "Y", "Z">>

LowerCase == <<"a", "b", "c", "d", "e", "f", "g", "h", "i", "j", "k", "l", "m", "n", "o", "p", "q", "r", "s", "t", "u", "v", "w", "x", "y", "z">>

\* str.lower()
lower(s) ==
    [i \in 1..Len(s) |->
        IF \E k \in 1..Len(UpperCase) : UpperCase[k] = s[i]
        THEN LowerCase[CHOOSE k \in 1..Len(UpperCase) : UpperCase[k] = s[i]]
        ELSE s[i]]

\* str.startswith(prefix)
startswith(s, prefix) ==
    Len(prefix) <= Len(s) /\ SubSeq(s, 1, Len(prefix)) = prefix

\* str.replace(old, "", 1): the first occurrence of old is removed
remove_first(s, old) ==
    LET at == {i \in 1..(Len(s) - Len(old) + 1) : SubSeq(s, i, i + Len(old) - 1) = old}
    IN  IF at = {} THEN s
        ELSE LET i == CHOOSE i \in at : \A j \in at : i <= j
             IN  SubSeq(s, 1, i - 1) \o SubSeq(s, i + Len(old), Len(s))

\* filtered_prefixes, the default of filter_headers
filtered_prefixes ==
    {<<"h", "o", "s", "t">>, <<"c", "o", "o", "k", "i", "e">>, <<"x", "-", "m", "s", "-">>, <<"x", "-", "a", "r", "r", "-">>, <<"d", "i", "s", "g", "u", "i", "s", "e", "d", "-", "h", "o", "s", "t">>, <<"r", "e", "f", "e", "r", "e", "r">>}

\* strip_output_headers
\* (mutant: the hop-by-hop headers only)
strip_hop_by_hop ==
    {<<"t", "r", "a", "n", "s", "f", "e", "r", "-", "e", "n", "c", "o", "d", "i", "n", "g">>, <<"c", "o", "n", "t", "e", "n", "t", "-", "l", "e", "n", "g", "t", "h">>, <<"c", "o", "n", "n", "e", "c", "t", "i", "o", "n">>}

strip_output_headers ==
    {<<"s", "e", "t", "-", "c", "o", "o", "k", "i", "e">>, <<"t", "r", "a", "n", "s", "f", "e", "r", "-", "e", "n", "c", "o", "d", "i", "n", "g">>, <<"c", "o", "n", "t", "e", "n", "t", "-", "l", "e", "n", "g", "t", "h">>, <<"s", "e", "r", "v", "e", "r">>, <<"d", "a", "t", "e">>, <<"c", "o", "n", "n", "e", "c", "t", "i", "o", "n">>}

\* filter_headers(headers, filtered_prefixes)
\* (mutant: a header is dropped only when its name is one of the prefixes)
filter_headers_exact(headers, prefixes) ==
    LET Clean(h) == lower(h[1]) \notin prefixes
    IN  SelectSeq(headers, Clean)

filter_headers(headers, prefixes) ==
    LET Clean(h) == ~\E prefix \in prefixes : startswith(lower(h[1]), prefix)
    IN  SelectSeq(headers, Clean)

\* The names of the headers an inbound request may carry.
InboundNames ==
    <<<<"C", "o", "o", "k", "i", "e">>, <<"c", "o", "o", "k", "i", "e">>, <<"X", "-", "F", "o", "r", "w", "a", "r", "d", "e", "d", "-", "H", "o", "s", "t">>, <<"X", "-", "M", "S", "-", "C", "L", "I", "E", "N", "T", "-", "I", "D">>,
      <<"x", "-", "a", "r", "r", "-", "s", "s", "l">>, <<"H", "o", "s", "t">>, <<"D", "i", "s", "g", "u", "i", "s", "e", "d", "-", "H", "o", "s", "t">>, <<"R", "e", "f", "e", "r", "e", "r">>,
      <<"a", "c", "c", "e", "p", "t">>, <<"A", "u", "t", "h", "o", "r", "i", "z", "a", "t", "i", "o", "n">>>>

Header(name) == <<name, <<"v">>>>

\* The headers of an inbound request: none, one of the names, or all of them.
InboundHeaders ==
    {<<>>, [i \in 1..Len(InboundNames) |-> Header(InboundNames[i])]}
        \cup {<<Header(InboundNames[i])>> : i \in 1..Len(InboundNames)}

\* request.scope.get("root_path"): the path the application is mounted under
RootPaths == {<<>>, <<"/", "p", "r", "o", "x", "y">>}

\* How _session(request) ends for a request: the session is found or loaded
\* ("ok"), KEYVAULT_SESSION_SECRET is not in the environment, the key vault
\* answers boot with an error, the secret does not decode, or a proxy of the
\* secret's configuration does not construct a client.
Resolutions == {"ok", "no secret", "secret error", "decode failure", "invalid proxy"}

Requests ==
    [prefix : {"httpbin", "jupyter", "nope"}, headers : InboundHeaders,
     root_path : RootPaths, resolution : Resolutions]

\* apis(request): the origins of the session's configuration
apis == Apis(config)

\* _session(request)[f"proxy_{prefix}"]
ProxyOf(prefix) ==
    Get(config, CHOOSE key \in {config[i][1] : i \in 1..Len(config)} :
                    IsProxy(key) /\ ApiName(key) = prefix)

\* the base_url the upstream's client was configured with
Configured(prefix) == Text(ProxyOf(prefix).base_url)

\* str(upstream_client.base_url): httpx is not part of the source, and a
\* client may hand back the url as configured or with a trailing slash put
\* after its path.
str_base_url(url) ==
    IF url[Len(url)] = "/" THEN {url} ELSE {url, url \o <<"/">>}

\* base_url = f"{upstream_client.base_url}/"
base_url(rendered) == rendered \o <<"/">>

\* The Location headers an upstream may answer with.
Locations(url) ==
    {url \o <<"/", "g", "e", "t">>,
     url \o <<"/", "/", "g", "e", "t">>,
     url,
     url \o <<".", "e", "v", "i", "l", ".", "e", "x", "a", "m", "p", "l", "e", "/", "x">>,
     <<"h", "t", "t", "p", "s", ":", "/", "/", "e", "v", "i", "l", ".", "e", "x", "a", "m", "p", "l", "e", "/", "x">>,
     <<"h", "t", "t", "p", ":", "/", "/", "e", "v", "i", "l", ".", "e", "x", "a", "m", "p", "l", "e", "/", "x">>,
     <<"H", "T", "T", "P", "S", ":", "/", "/", "e", "v", "i", "l", ".", "e", "x", "a", "m", "p", "l", "e", "/", "x">>,
     <<"f", "t", "p", ":", "/", "/", "e", "v", "i", "l", ".", "e", "x", "a", "m", "p", "l", "e", "/", "x">>,
     <<"/", "/", "e", "v", "i", "l", ".", "e", "x", "a", "m", "p", "l", "e", "/", "x">>,
     <<"/", "g", "e", "t">>,
     <<"g", "e", "t">>}

\* The names of the headers an upstream response may carry besides Location.
OutboundNames ==
    <<<<"s", "e", "t", "-", "c", "o", "o", "k", "i", "e">>, <<"t", "r", "a", "n", "s", "f", "e", "r", "-", "e", "n", "c", "o", "d", "i", "n", "g">>, <<"c", "o", "n", "t", "e", "n", "t", "-", "l", "e", "n", "g", "t", "h">>, <<"s", "e", "r", "v", "e", "r">>, <<"d", "a", "t", "e">>,
      <<"c", "o", "n", "n", "e", "c", "t", "i", "o", "n">>, <<"c", "o", "n", "t", "e", "n", "t", "-", "t", "y", "p", "e">>>>

OriginHeaders ==
    {<<>>, [i \in 1..Len(OutboundNames) |-> Header(OutboundNames[i])]}
        \cup {<<Header(OutboundNames[i])>> : i \in 1..Len(OutboundNames)}

location == <<"l", "o", "c", "a", "t", "i", "o", "n">>

\* "location" in origin.headers / origin.headers["location"]
HasLocation(headers) == \E i \in 1..Len(headers) : headers[i][1] = location

LocationOf(headers) == Get(headers, location)

\* b"".join(origin.iter_raw()): the bytes of the upstream's body
Bodies == {"", "body"}

\* The responses an upstream may give.
Origins(url) ==
    {[status_code |-> code, headers |-> headers, body |-> body] :
        code \in {200, 302}, headers \in OriginHeaders, body \in Bodies}
    \cup
    {[status_code |-> code, headers |-> Append(headers, <<location, loc>>),
      body |-> "body"] :
        code \in {302}, headers \in OriginHeaders, loc \in Locations(url)}

HTTPException(status_code, detail) == [raised |-> status_code, detail |-> detail]

\* An exception that is not an HTTPException leaves the handler, and the
\* server answers 500 Internal Server Error.
Unhandled == [raised |-> 500, detail |-> Text("Internal Server Error")]

\* _session, lines 41-44, with boot and load_session: what a request whose
\* session does not resolve is answered
\* (mutant: every failure is answered 403)
session_failure_forbidden(resolution) ==
    HTTPException(403, Text("KEYVAULT_SESSION_SECRET not available"))

session_failure(resolution) ==
    CASE resolution = "no secret" ->
            HTTPException(403, Text("KEYVAULT_SESSION_SECRET not available"))
      [] resolution = "secret error" ->
            HTTPException(403, Text("KEYVAULT_SESSION_SECRET not available"))
      [] resolution = "decode failure" ->
            HTTPException(500, Text("Failed to load session data"))
      [] resolution = "invalid proxy" -> Unhandled

\* client, lines 119-120: what a request for a prefix that is not among the
\* apis is answered
\* (mutant: the prefix is refused as forbidden)
not_configured_forbidden(prefix) ==
    HTTPException(403, Text("KEYVAULT_SESSION_SECRET not available"))

not_configured(prefix) ==
    HTTPException(404, Text(prefix) \o Text(" does not have a valid configuration, see /proxy/apis for valid prefixes."))

\* upstream, up to upstream_client.stream(...): the headers are filtered,
\* client(request, prefix) resolves the session, raises 404 for a prefix that
\* is not configured, and the request goes to the upstream.  The handler keeps nothing from one
\* request to the next, so one request is followed from arrival to reply.
Forward ==
    /\ stage = "idle"
    /\ \E req \in Requests :
          /\ request' = req
          /\ IF req.resolution # "ok"
             THEN /\ sent' = None
                  /\ response' = session_failure(req.resolution)
                  /\ stage' = "replied"
             ELSE IF req.prefix \notin DOMAIN apis
             THEN /\ sent' = None
                  /\ response' = not_configured(req.prefix)
                  /\ stage' = "replied"
             ELSE /\ \E rendered \in str_base_url(Configured(req.prefix)) :
                        sent' = [configured |-> Configured(req.prefix),
                                 base_url |-> rendered,
                                 headers |-> filter_headers(req.headers, filtered_prefixes)]
                  /\ response' = None
                  /\ stage' = "forwarded"
    /\ origin' = None
    /\ UNCHANGED notProxy

\* upstream, inside `with ... as origin`: a Location rooted at the base url
\* is rewritten, any other Location that starts with "http" is refused, and
\* the response is relayed with its headers stripped.
Relayed(req, rendered, orig) ==
    LET loc     == LocationOf(orig.headers)
        base    == base_url(rendered)
        rooted  == HasLocation(orig.headers) /\ startswith(loc, base)
        refused == /\ HasLocation(orig.headers)
                   /\ ~rooted
                   /\ startswith(loc, <<"h", "t", "t", "p">>)
        redir_path == remove_first(loc, base)
        headers == IF rooted
                   THEN Set(orig.headers, location,
                            req.root_path \o <<"/">> \o Text(req.prefix)
                                \o <<"/">> \o redir_path)
                   ELSE orig.headers
    IN  IF refused
        THEN HTTPException(403, Text("Redirect to ") \o loc \o Text(" not allowed."))
        ELSE [status_code |-> orig.status_code,
              headers |-> filter_headers(headers, strip_output_headers),
              body |-> orig.body]

Relay ==
    /\ stage = "forwarded"
    /\ \E orig \in Origins(sent.configured) :
          /\ origin' = orig
          /\ response' = Relayed(request, sent.base_url, orig)
    /\ stage' = "replied"
    /\ UNCHANGED <<request, sent, notProxy>>

IdleProxy ==
    /\ request = None
    /\ sent = None
    /\ origin = None
    /\ response = None
    /\ stage = "idle"

(***************************************************************************)
(* Claims about the reverse proxy.                                         *)
(***************************************************************************)
\* the request went to an upstream
Forwarded ==
    /\ stage # "idle"
    /\ request.resolution = "ok"
    /\ request.prefix \in DOMAIN apis

\* the upstream answered with a Location, and the handler is done
Redirected == Forwarded /\ stage = "replied" /\ HasLocation(origin.headers)

\* the handler returned a response, it did not raise
IsRelayed == Forwarded /\ stage = "replied" /\ "status_code" \in DOMAIN response

Schemes == {<<"h", "t", "t", "p">>, <<"h", "t", "t", "p", "s">>, <<"f", "t", "p">>}

\* an absolute URL: a scheme, in either case, and an authority
Absolute(loc) == \E scheme \in Schemes : startswith(lower(loc), scheme \o <<":", "/", "/">>)

\* a Location a browser follows off the proxy's origin
OffOrigin(loc) == Absolute(loc) \/ startswith(loc, <<"/", "/">>)

\* rooted at the upstream's base URL: the base URL itself or a path under it
Rooted(loc, url) == loc = url \/ startswith(loc, url \o <<"/">>)

\* C8 (as stated): an upstream response whose Location is an absolute URL not
\* rooted at the upstream's base URL is answered with 403, and no relayed
\* response carries a Location that points to an external origin.
C8_AsClaimed ==
    /\ Redirected =>
          LET loc == LocationOf(origin.headers)
          IN  Absolute(loc) /\ ~Rooted(loc, sent.configured)
                  => "raised" \in DOMAIN response /\ response.raised = 403
    /\ IsRelayed /\ HasLocation(response.headers) =>
          LET loc == LocationOf(response.headers)
          IN  ~(OffOrigin(loc) /\ ~Rooted(loc, sent.configured))

\* the Location with the base URL, and the slash after it, removed
RelativePath(loc, url) ==
    LET rest == remove_first(loc, url)
    IN  IF startswith(rest, <<"/">>) THEN Tail(rest) ELSE rest

\* C9 (as stated): an upstream response whose Location starts with the
\* upstream's base URL is relayed with the Location rewritten to
\* {mount}/{proxy_name}/{relative-path}.
C9_AsClaimed ==
    Redirected /\ startswith(LocationOf(origin.headers), sent.configured) =>
        /\ IsRelayed
        /\ HasLocation(response.headers)
        /\ LocationOf(response.headers) =
              request.root_path \o <<"/">> \o Text(request.prefix) \o <<"/">>
                  \o RelativePath(LocationOf(origin.headers), sent.configured)

Denylisted(name) == \E prefix \in filtered_prefixes : startswith(lower(name), prefix)

Passed(header) == \E i \in 1..Len(sent.headers) : sent.headers[i] = header

Named(headers, name) == \E i \in 1..Len(headers) : lower(headers[i][1]) = name

\* C11: a relayed response carries none of the upstream's set-cookie,
\* transfer-encoding, content-length, server, date and connection headers,
\* and its status code and body are the upstream's.
C11_OutboundScrubbed ==
    IsRelayed =>
        /\ ~Named(response.headers, <<"s", "e", "t", "-", "c", "o", "o", "k", "i", "e">>)
        /\ ~Named(response.headers, <<"t", "r", "a", "n", "s", "f", "e", "r", "-", "e", "n", "c", "o", "d", "i", "n", "g">>)
        /\ ~Named(response.headers, <<"c", "o", "n", "t", "e", "n", "t", "-", "l", "e", "n", "g", "t", "h">>)
        /\ ~Named(response.headers, <<"s", "e", "r", "v", "e", "r">>)
        /\ ~Named(response.headers, <<"d", "a", "t", "e">>)
        /\ ~Named(response.headers, <<"c", "o", "n", "n", "e", "c", "t", "i", "o", "n">>)
        /\ response.status_code = origin.status_code
        /\ response.body = origin.body

\* an upstream response with Set-Cookie, Server and a body was relayed, its
\* Content-Type kept
C11_Witness ==
    /\ IsRelayed
    /\ Named(origin.headers, <<"s", "e", "t", "-", "c", "o", "o", "k", "i", "e">>)
    /\ Named(origin.headers, <<"s", "e", "r", "v", "e", "r">>)
    /\ origin.body = "body"
    /\ Named(response.headers, <<"c", "o", "n", "t", "e", "n", "t", "-", "t", "y", "p", "e">>)

\* part in text
Contains(text, part) ==
    \E i \in 0..(Len(text) - Len(part)) : SubSeq(text, i + 1, i + Len(part)) = part

\* the session resolved, and the request named a prefix that is not among
\* its apis
Unknown ==
    /\ stage = "replied"
    /\ request.resolution = "ok"
    /\ request.prefix \notin DOMAIN apis

\* C18 (as stated): a forward request whose proxy_name is not in the
\* session's validated proxy set yields a 404 error naming the valid options,
\* and no request is sent to any upstream.
C18_AsClaimed ==
    Unknown =>
        /\ response.raised = 404
        /\ \A name \in DOMAIN apis : Contains(response.detail, Text(name))
        /\ sent = None

\* C18 (amended): a forward request whose proxy_name is not in the session's
\* validated proxy set yields a 404 error that names the requested prefix and
\* refers to /proxy/apis for the valid prefixes, and no request is sent to
\* any upstream.
C18_NotFound ==
    Unknown =>
        /\ response.raised = 404
        /\ Contains(response.detail, Text(request.prefix))
        /\ Contains(response.detail, Text("/proxy/apis"))
        /\ sent = None

\* a request for the prefix nope was answered, with httpbin and jupyter the
\* valid prefixes
C18_Witness ==
    /\ Unknown
    /\ request.prefix = "nope"
    /\ DOMAIN apis = {"httpbin", "jupyter"}
    /\ "raised" \in DOMAIN response

\* the session of the request did not resolve
Unresolved == stage = "replied" /\ request.resolution # "ok"

\* C19 (as stated): configuration-resolution failures during a proxied
\* request (missing session secret, secret provider error, blob decode
\* failure, proxy sub-config validation failure) are surfaced to the caller as
\* client errors (unauthorized/forbidden) and always occur before any request
\* is sent to an upstream.
C19_AsClaimed ==
    Unresolved =>
        /\ response.raised \in {401, 403}
        /\ sent = None

\* C19 (amended): configuration-resolution failures during a proxied request
\* always occur before any request is sent to an upstream; a missing session
\* secret and a secret provider error are surfaced to the caller as forbidden
\* (403), a blob decode failure and a proxy sub-config validation failure as
\* server errors (500).
C19_FailuresBeforeUpstream ==
    Unresolved =>
        /\ sent = None
        /\ request.resolution \in {"no secret", "secret error"} => response.raised = 403
        /\ request.resolution \in {"decode failure", "invalid proxy"} => response.raised = 500

\* a request whose session secret did not decode was answered 500, and
\* nothing was sent
C19_Witness ==
    /\ Unresolved
    /\ request.resolution = "decode failure"
    /\ response = HTTPException(500, Text("Failed to load session data"))
    /\ sent = None

(***************************************************************************)
(* src/siem_query_utils/azcli.py: the shared Cache, settings, login and    *)
(* the memoized azcli.                                                     *)
(***************************************************************************)
\* cache = Cache(maxsize=25600, ttl=300); @cache.memoize(ttl=...)
\* (mutant: azcli memoized with the ttl of the Cache)
CacheTtl == 300

AzcliTtl == 60
GenerateSasTtl == 86400
LoginLife == 3600
Day == 86400

\* An entry of the Cache: a key, its value and the time it expires.
Entry(key, value, expire) == [key |-> key, value |-> value, expire |-> expire]

\* The key memoize makes of a call: the function and its arguments.
MemoKey(fn, args) == [fn |-> fn, args |-> args]

\* Cache.expired(key): the timer has reached the entry's expire time
has_expired(expire, t) == expire <= t

Holds(store, key) == \E i \in 1..Len(store) : store[i].key = key

EntryOf(store, key) == store[CHOOSE i \in 1..Len(store) : store[i].key = key]

delete(store, key) ==
    LET Other(e) == e.key # key IN SelectSeq(store, Other)

\* Cache.get(key): an entry found expired is deleted and counts as missing
Live(store, key, t) == Holds(store, key) /\ ~has_expired(EntryOf(store, key).expire, t)

AfterGet(store, key, t) ==
    IF Holds(store, key) /\ ~Live(store, key, t) THEN delete(store, key) ELSE store

\* Cache.delete_expired()
delete_expired(store, t) ==
    LET Fresh(e) == ~has_expired(e.expire, t) IN SelectSeq(store, Fresh)

\* Cache.evict(): a full Cache drops its expired entries, and when it is
\* still full the entry that was set first
evict(store, maxsize, t) ==
    IF Len(store) < maxsize THEN store
    ELSE LET kept == delete_expired(store, t)
         IN  IF Len(kept) < maxsize THEN kept ELSE Tail(kept)

\* Cache.set(key, value, ttl): room is made for a new key, and the entry
\* becomes the newest one
set(store, key, value, ttl, t) ==
    LET room == IF Holds(store, key) THEN store ELSE evict(store, MemoMaxSize, t)
    IN  Append(delete(room, key), Entry(key, value, t + ttl))

\* the commands azcli is called with, and the values of error_result
Commands == {<<"account", "list">>, <<"group", "list">>}

Fallbacks == {None, [fallback |-> "[]"]}

AzcliKey(cmd, error_result) == MemoKey("azcli", <<cmd, error_result>>)

\* bootstrap's get_blob_path calls generatesas, which calls azcli
GenerateSasCmd == <<"storage", "container", "generate-sas">>

GenerateSasKey == MemoKey("generatesas", <<>>)

\* ["--only-show-errors", "-o", "json"]
Flags == <<"--only-show-errors", "-o", "json">>

\* cmd += ["--only-show-errors", "-o", "json"]: the list cli.invoke is given
CommandLine(cmd) == cmd \o Flags

\* cli.result.result of the n-th run of a command line
CliResult(n) == [result |-> n]

\* cli.result.error
CliError == [error |-> "cli.result.error"]

\* settings(key): whether login is called
\* (mutant: a process that is not logged in is let through)
NeedsLoginNever(state, t) == FALSE

NeedsLogin(state, t) == t - state.login_time > LoginLife \/ ~state.logged_in

\* login(): app_state after a login that succeeded
LoggedIn(t) == [logged_in |-> TRUE, login_time |-> t]

\* bootstrap(app_state): get_blob_path -> generatesas -> azcli, each memoized
\* in the same Cache; n is the number of runs so far
Bootstrap(store, t, n, history) ==
    LET s0 == AfterGet(store, GenerateSasKey, t)
        k  == AzcliKey(GenerateSasCmd, None)
        s1 == AfterGet(s0, k, t)
        ran == ~Live(store, GenerateSasKey, t) /\ ~Live(s0, k, t)
        sas == IF Live(s0, k, t) THEN EntryOf(s0, k).value ELSE CliResult(n + 1)
        s2 == IF ran THEN set(s1, k, sas, AzcliTtl, t) ELSE s1
    IN  IF Live(store, GenerateSasKey, t)
        THEN [store |-> store, runs |-> n, used |-> Use(history, GenerateSasKey)]
        ELSE [store |-> set(s2, GenerateSasKey, sas, GenerateSasTtl, t),
              runs |-> IF ran THEN n + 1 ELSE n,
              used |-> Use(Use(history, k), GenerateSasKey)]

AzcliKeys == {AzcliKey(cmd, error_result) : cmd \in Commands, error_result \in Fallbacks}

NoAzcli ==
    [key |-> None, at |-> 0, cached |-> FALSE, prior |-> None, known |-> None,
     logged_in |-> FALSE, login |-> "none", ran |-> <<>>, failed |-> FALSE,
     returned |-> None, raised |-> None]

\* if cli.result.error: if error_result is None: raise cli.result.error
\* (mutant: the error is never raised)
raises_nothing(cmd_ok, error_result) == FALSE

raises_error(cmd_ok, error_result) == ~cmd_ok /\ error_result = None

\* azcli(cmd, error_result) behind @cache.memoize(ttl=60).  A live entry
\* answers the call.  Otherwise settings("logged_in") logs in when the
\* process is not logged in or its login is older than an hour (login exits
\* when it is refused; bootstrap follows a login and may raise), the command
\* line is run, an error is raised or answered with error_result, and what
\* azcli returns is set in the Cache.
azcli(cmd, error_result, login_ok, bootstrap_ok, cmd_ok) ==
    LET key     == AzcliKey(cmd, error_result)
        cached  == Live(memo, key, clock)
        s0      == AfterGet(memo, key, clock)
        login   == NeedsLogin(app_state, clock)
        exits   == login /\ ~login_ok
        state1  == IF login /\ login_ok THEN LoggedIn(clock) ELSE app_state
        boots   == login /\ login_ok /\ bootstrap_ok
        booted  == IF boots THEN Bootstrap(s0, clock, runs, memo_used)
                   ELSE [store |-> s0, runs |-> runs, used |-> memo_used]
        \* assert settings("logged_in")
        asserts == ~exits /\ ~state1.logged_in
        stops   == exits \/ asserts \/ (login /\ login_ok /\ ~bootstrap_ok)
        n       == booted.runs + 1
        raises  == raises_error(cmd_ok, error_result)
        value   == IF cmd_ok THEN CliResult(n) ELSE error_result
        begun   == [key |-> key, at |-> clock, cached |-> cached,
                    prior |-> IF Holds(memo, key) THEN EntryOf(memo, key) ELSE None,
                    known |-> last_run[key],
                    logged_in |-> app_state.logged_in,
                    login |-> IF cached \/ ~login THEN "none"
                              ELSE IF login_ok THEN "ok" ELSE "refused",
                    ran |-> <<>>, failed |-> FALSE,
                    returned |-> None, raised |-> None]
    IN  /\ az.raised # [exception |-> "SystemExit"]
        /\ IF cached
           THEN /\ az' = [begun EXCEPT !.returned = EntryOf(memo, key).value]
                /\ memo_used' = Use(memo_used, key)
                /\ UNCHANGED <<memo, app_state, runs, last_run>>
           ELSE IF stops
           THEN /\ az' = [begun EXCEPT !.raised =
                            IF exits THEN [exception |-> "SystemExit"]
                            ELSE IF asserts THEN [exception |-> "AssertionError"]
                            ELSE [exception |-> "Exception"]]
                /\ memo' = s0
                /\ app_state' = state1
                /\ UNCHANGED <<runs, last_run, memo_used>>
           ELSE /\ n <= MaxRuns
                /\ runs' = n
                /\ app_state' = state1
                /\ az' = [begun EXCEPT !.ran = CommandLine(cmd),
                                      !.failed = ~cmd_ok,
                                      !.returned = IF raises THEN None ELSE value,
                                      !.raised = IF raises THEN CliError ELSE None]
                /\ memo' = IF raises THEN booted.store
                           ELSE set(booted.store, key, value, AzcliTtl, clock)
                /\ memo_used' = IF raises THEN booted.used ELSE Use(booted.used, key)
                /\ last_run' = IF cmd_ok
                               THEN [last_run EXCEPT ![key] = [at |-> clock, value |-> value]]
                               ELSE last_run
        /\ UNCHANGED <<clock, notAzcli>>

\* An outcome is drawn only for the steps the call gets to: the login when
\* one is made, bootstrap after a login, the command when it is run.
Drawn(cmd, error_result, login_ok, bootstrap_ok, cmd_ok) ==
    LET cached == Live(memo, AzcliKey(cmd, error_result), clock)
        login  == ~cached /\ NeedsLogin(app_state, clock)
    IN  /\ ~login => login_ok
        /\ ~(login /\ login_ok) => bootstrap_ok
        /\ (cached \/ ~login_ok \/ ~bootstrap_ok) => cmd_ok

Azcli ==
    \E cmd \in Commands, error_result \in Fallbacks,
       login_ok \in BOOLEAN, bootstrap_ok \in BOOLEAN, cmd_ok \in BOOLEAN :
        /\ Drawn(cmd, error_result, login_ok, bootstrap_ok, cmd_ok)
        /\ azcli(cmd, error_result, login_ok, bootstrap_ok, cmd_ok)

\* the lists a caller builds for azcli
HeldLists == Commands

\* the caller has built no list
NoCaller ==
    /\ held = <<>>
    /\ invoked = None

\* the caller has built its list and has not called azcli with it
Caller ==
    /\ held \in HeldLists
    /\ invoked = None

\* azcli(cmd, error_result) behind @cache.memoize(ttl=60), called by a
\* process that is logged in with the list object the caller keeps.  memoize
\* makes the key of the list as it is when the call is made; a live entry
\* answers the call and the function is not entered.  Otherwise
\* `cmd += [...]` extends that list object in place, cli.invoke(cmd) runs it,
\* an error is raised or answered with error_result, and what azcli returns
\* is set under the key made before the call.
azcli_held(error_result, cmd_ok) ==
    LET key      == AzcliKey(held, error_result)
        cached   == Live(memo, key, clock)
        s0       == AfterGet(memo, key, clock)
        extended == CommandLine(held)
        n        == runs + 1
        raises   == raises_error(cmd_ok, error_result)
        value    == IF cmd_ok THEN CliResult(n) ELSE error_result
        begun    == [key |-> key, at |-> clock, cached |-> cached, passed |-> held,
                     ran |-> <<>>, left |-> held]
    IN  /\ held # <<>>
        \* assert settings("logged_in")
        /\ ~NeedsLogin(app_state, clock)
        /\ IF cached
           THEN /\ invoked' = begun
                /\ memo_used' = Use(memo_used, key)
                /\ UNCHANGED <<held, memo, runs>>
           ELSE /\ n <= MaxRuns
                /\ runs' = n
                /\ held' = extended
                /\ invoked' = [begun EXCEPT !.ran = extended, !.left = extended]
                /\ memo' = IF raises THEN s0 ELSE set(s0, key, value, AzcliTtl, clock)
                /\ memo_used' = IF raises THEN memo_used ELSE Use(memo_used, key)
        /\ UNCHANGED <<clock, app_state, last_run, az, notCaller>>

AzcliHeld ==
    \E error_result \in Fallbacks, cmd_ok \in BOOLEAN :
        /\ Live(memo, AzcliKey(held, error_result), clock) => cmd_ok
        /\ azcli_held(error_result, cmd_ok)

\* The instants the clock is read at: every half minute.
Instants == {30 * k : k \in 0..MaxHalfMinutes}

\* time passes between calls
Advance ==
    /\ az.raised # [exception |-> "SystemExit"]
    /\ clock + 30 \in Instants
    /\ clock' = clock + 30
    /\ UNCHANGED <<memo, app_state, runs, last_run, memo_used, az, notAzcli>>

\* the module has just been imported: the last login is a day ago, to force
\* a login
LoggedOut ==
    /\ clock = 0
    /\ memo = <<>>
    /\ app_state = [logged_in |-> FALSE, login_time |-> 0 - Day]
    /\ runs = 0
    /\ last_run = [key \in AzcliKeys |-> None]
    /\ memo_used = <<>>
    /\ az = NoAzcli

(***************************************************************************)
(* src/main.py: listWorkspaces.                                            *)
(***************************************************************************)
\* Workspace = namedtuple("Workspace", [...])
Workspace(subscription, customerId, resourceGroup, name) ==
    [subscription |-> subscription, customerId |-> customerId,
     resourceGroup |-> resourceGroup, name |-> name]

\* What `az account list --query [].id` prints: the ids of no, one or two
\* subscriptions.
SubscriptionLists == {<<>>, <<1>>, <<1, 2>>}

\* What `az monitor log-analytics workspace list` prints for a subscription:
\* n [customerId, resourceGroup, name] triples, the first one twice when
\* `twice` is set.  The same customerIds are listed under every subscription.
Listing(n, twice) ==
    LET triples == [i \in 1..n |-> <<i, "rg", "ws">>]
    IN  IF twice /\ n > 0 THEN <<triples[1]>> \o triples ELSE triples

ListedSizes == {0, 1, 2, MaxListed}

Listings == {Listing(n, twice) : n \in ListedSizes, twice \in BOOLEAN}

\* The commands of the discovery as keys of azcli's cache: no chunk of
\* customerIds begins with 0.
AccountListCmd == <<0>>

WorkspaceListCmd(s) == <<0, s>>

\* for customerId, resourceGroup, name in future.result():
\*     workspaces.add(Workspace(subscription, customerId, resourceGroup, name))
Workspaces(subscriptions, listings) ==
    UNION {{Workspace(subscriptions[k], listings[k][i][1], listings[k][i][2], listings[k][i][3]) :
               i \in 1..Len(listings[k])} : k \in 1..Len(subscriptions)}

\* The order in which a set of Workspace is iterated, which is not the
\* order of its customerIds: last subscription first, highest customerId
\* first.
Ord(ws) == ws.subscription * (MaxListed + 1) + ws.customerId

ListOf(found) ==
    LET top    == 2 * (MaxListed + 1) + MaxListed
        ranked == SelectSeq([v \in 1..(top + 1) |-> {ws \in found : Ord(ws) = top + 1 - v}],
                            LAMBDA same : same # {})
    IN  [k \in 1..Len(ranked) |-> CHOOSE ws \in ranked[k] : TRUE]

\* azcli(*cmd) for the commands of the discovery, each a miss that is stored
RECURSIVE Stored(_, _, _)
Stored(store, cmds, t) ==
    IF cmds = <<>> THEN store
    ELSE Stored(Insert(store, Result(Head(cmds), Json(<<>>), Death(t, AzTtl)), AzMaxSize),
                Tail(cmds), t)

RECURSIVE UseAll(_, _)
UseAll(history, cmds) ==
    IF cmds = <<>> THEN history ELSE UseAll(Use(history, Head(cmds)), Tail(cmds))

\* listWorkspaces, lines 78-85: the subscriptions are listed, the workspaces
\* of each are listed by the pool, and the set of Workspace is built.  A
\* command that fails raises out of listWorkspaces.  Then analyticsQuery is
\* called with the customerId of every Workspace of the set.
Discover ==
    /\ pc = "listing"
    /\ listed = None
    /\ \E subscriptions \in SubscriptionLists, ok \in BOOLEAN :
       \E listings \in [1..Len(subscriptions) -> Listings],
          failing \in SUBSET (1..Len(subscriptions)) :
          LET cmds == (IF ok THEN <<AccountListCmd>> ELSE <<>>) \o
                      SelectSeq([k \in 1..Len(subscriptions) |->
                                    IF ok /\ k \notin failing
                                    THEN WorkspaceListCmd(subscriptions[k])
                                    ELSE <<>>],
                                LAMBDA cmd : cmd # <<>>)
              found == Workspaces(subscriptions, listings)
              order == ListOf(found)
          IN  /\ ~ok => (subscriptions = <<>> /\ failing = {})
              /\ cached_func' = Stored(cached_func, cmds, now)
              /\ used' = UseAll(used, cmds)
              /\ invocations' = invocations + (IF ok THEN 1 + Len(subscriptions) ELSE 1)
              /\ IF ok /\ failing = {}
                 THEN /\ discovered' = [subscriptions |-> subscriptions,
                                        listings |-> listings, workspaces |-> found]
                      /\ workspaces' = [k \in 1..Len(order) |-> order[k].customerId]
                      /\ pc' = "idle"
                      /\ UNCHANGED listed
                 ELSE /\ listed' = [raised |-> TRUE]
                      /\ UNCHANGED <<discovered, workspaces, pc>>
    /\ UNCHANGED <<chunks, results, output, collected, finished, now, computed, call,
                   notDirectory>>

\* return [ws for ws in workspaces if ws.customerId in validated]
\* (mutant: every Workspace is returned)
unfiltered(ws, validated) == TRUE

is_validated(ws, validated) == \E p \in 1..Len(validated) : validated[p] = ws.customerId

\* listWorkspaces, lines 87-89: the TenantIds of the rows analyticsQuery
\* returned validate the workspaces
Validate ==
    /\ pc = "done"
    /\ discovered # None
    /\ listed = None
    /\ LET validated == [p \in 1..Len(output) |-> output[p][1]]
           Keep(ws)  == is_validated(ws, validated)
       IN  listed' = [returned |-> SelectSeq(ListOf(discovered.workspaces), Keep)]
    /\ UNCHANGED <<discovered, queryVars, cacheVars, notDirectory>>

\* neither listWorkspaces nor simpleQuery has been called
NoDirectory ==
    /\ discovered = None
    /\ listed = None
    /\ simple = None

(***************************************************************************)
(* src/main.py: listWorkspaces behind @cache(ttl=24*60*60), and            *)
(* globalQuery.  A call is one step here: its commands run one after the   *)
(* other, and no other call runs at the same time.                         *)
(***************************************************************************)
\* @cache(ttl=24*60*60) # cache workspaces for 1 day
\* (mutant: the decorator's default ttl)
ListTtlDefault == AzTtl

ListTtl == 24 * 60 * 60

HalfDay == 12 * 60 * 60

\* What the command of a chunk does when it is executed: it ends with an
\* error, prints nothing, or prints a JSON list of that many rows.
Error == 0 - 2

Nothing == 0 - 1

Codes == {Error, Nothing} \cup (0..MaxRows)

Printing(chunk, code) == IF code = Nothing THEN None ELSE Json(Rows(chunk, code))

\* "SecurityIncident | distinct TenantId", and the query globalQuery is
\* called with, another one
ValidationQuery == 0

OtherQuery == 0 - 1

\* The command of a chunk as a key of azcli's cache: the commands of the
\* validation are keyed by their chunk, those of another query begin with -1.
QueryCmd(query, chunk) == IF query = ValidationQuery THEN chunk ELSE <<query>> \o chunk

\* azcli(*cmd) for the commands of the discovery, one after the other: a
\* fresh entry answers, otherwise the command is executed and, when it does
\* not fail, its result stored.
RECURSIVE RunAll(_, _, _, _)
RunAll(state, cmds, failing, t) ==
    IF cmds = <<>> THEN state
    ELSE LET cmd     == Head(cmds)
             e       == Find(state.store, cmd)
             hit     == e # 0 /\ ~Expired(state.store[e].death, t)
             touched == IF e # 0 THEN Touch(state.store, e) ELSE state.store
             entry   == Result(cmd, Json(<<>>), Death(t, AzTtl))
         IN  RunAll([store |-> IF hit \/ cmd \in failing THEN touched
                               ELSE IF e # 0
                               THEN Overwrite(touched, cmd, entry.value, entry.death)
                               ELSE Insert(touched, entry, AzMaxSize),
                     ran |-> IF hit THEN state.ran ELSE state.ran + 1],
                    Tail(cmds), failing, t)

\* analyticsQuery, lines 61-66: azcli(*cmd) for every chunk.  state.results
\* holds the futures of the chunks before the next one.
RECURSIVE Queried(_, _, _, _, _)
Queried(state, query, chunked, codes, t) ==
    LET i == Len(state.results) + 1
    IN  IF i > Len(chunked) THEN state
        ELSE LET cmd     == QueryCmd(query, chunked[i])
                 e       == Find(state.store, cmd)
                 hit     == e # 0 /\ ~Expired(state.store[e].death, t)
                 touched == IF e # 0 THEN Touch(state.store, e) ELSE state.store
                 value   == Printing(chunked[i], codes[i])
             IN  Queried([store |-> IF hit \/ codes[i] = Error THEN touched
                                    ELSE IF e # 0
                                    THEN Overwrite(touched, cmd, value, Death(t, AzTtl))
                                    ELSE Insert(touched, Result(cmd, value, Death(t, AzTtl)),
                                                AzMaxSize),
                          ran |-> IF hit THEN state.ran ELSE state.ran + 1,
                          results |-> Append(state.results,
                                        IF hit THEN Future(cmd, "ok", state.store[e].value)
                                        ELSE IF codes[i] = Error THEN Future(cmd, "err", None)
                                        ELSE Future(cmd, "ok", value))],
                         query, chunked, codes, t)

\* analyticsQuery, lines 67-72: the rows of the futures that do not raise
RECURSIVE OutputOf(_)
OutputOf(futures) ==
    IF futures = <<>> THEN <<>>
    ELSE (IF Raises(Head(futures)) THEN <<>> ELSE Head(futures).value.rows)
            \o OutputOf(Tail(futures))

\* analyticsQuery(workspaces, query) with the cache `store` at time t, from
\* line 60 on: chunked is the list of chunks line 59 has made
analyticsQuery(store, t, chunked, query, codes) ==
    LET q == Queried([store |-> store, ran |-> 0, results |-> <<>>],
                     query, chunked, codes, t)
    IN  [store |-> q.store, ran |-> q.ran, results |-> q.results,
         output |-> OutputOf(q.results)]

\* line 59: the chunks of a list of customerIds
ChunkList(ids) ==
    LET made == Chunks(ids) IN SubSeq(made, 1, Len(made))

\* listWorkspaces(), lines 78-87, with the cache `store` at time t.  The
\* account list command fails (~ok) or prints the subscriptions; the
\* workspace list commands of the subscriptions in `failing` fail, and
\* future.result() raises out of listWorkspaces.  Otherwise analyticsQuery is
\* entered with the customerId of every Workspace of the set.
discovery(store, t, subscriptions, listings, ok, failing) ==
    LET cmds  == <<AccountListCmd>> \o
                 (IF ok THEN [k \in 1..Len(subscriptions) |->
                                WorkspaceListCmd(subscriptions[k])]
                  ELSE <<>>)
        bad   == (IF ok THEN {} ELSE {AccountListCmd}) \cup
                 {WorkspaceListCmd(subscriptions[k]) : k \in failing}
        d     == RunAll([store |-> store, ran |-> 0], cmds, bad, t)
        found == ListOf(Workspaces(subscriptions, listings))
        order == SubSeq(found, 1, Len(found))
        given == [k \in 1..Len(order) |-> order[k].customerId]
    IN  IF ok /\ failing = {}
        THEN [raised |-> FALSE, store |-> d.store, ran |-> d.ran, order |-> order,
              chunked |-> ChunkList(given)]
        ELSE [raised |-> TRUE, store |-> d.store, ran |-> d.ran, order |-> <<>>,
              chunked |-> <<>>]

\* listWorkspaces(), lines 87-89: codes are what the commands of the
\* validation do
listWorkspaces(d, t, codes) ==
    LET q == analyticsQuery(d.store, t, d.chunked, ValidationQuery, codes)
        validated == [p \in 1..Len(q.output) |-> q.output[p][1]]
        Keep(ws)  == is_validated(ws, validated)
    IN  IF d.raised
        THEN [raised |-> TRUE, value |-> <<>>, store |-> d.store, ran |-> d.ran,
              chunks |-> 0, failed |-> 0]
        ELSE [raised |-> FALSE, value |-> SelectSeq(d.order, Keep), store |-> q.store,
              ran |-> d.ran + q.ran, chunks |-> Len(q.results),
              failed |-> Cardinality({i \in 1..Len(q.results) : Raises(q.results[i])})]

\* wrapper(): the Result cached_func holds answers while its death is not
\* behind the clock; otherwise listWorkspaces runs, and what it returns is
\* kept with a death ttl after its return.  Nothing changes when it raises.
Fresh(entry, t) == entry # None /\ ~Expired(entry.death, t)

cached_listWorkspaces(entry, r, t) ==
    IF Fresh(entry, t)
    THEN [hit |-> TRUE, raised |-> FALSE, value |-> entry.value, entry |-> entry]
    ELSE [hit |-> FALSE, raised |-> r.raised, value |-> r.value,
          entry |-> IF r.raised THEN entry ELSE Result(<<>>, r.value, Death(t, ListTtl))]

\* what the commands of the discovery print, for a call that runs it: no
\* subscription or one, of no, one or MaxListed workspaces
SubscriptionsHere == {<<>>, <<1>>}

ListedHere == {Listing(n, FALSE) : n \in {0, 1, MaxListed}}

\* a command answered by azcli's cache does not fail
Answered(store, cmd, t) ==
    Find(store, cmd) # 0 /\ ~Expired(store[Find(store, cmd)].death, t)

Discoveries ==
    {d \in [subscriptions : SubscriptionsHere, ok : BOOLEAN, failing : SUBSET {1}] :
        /\ d.failing \subseteq 1..Len(d.subscriptions)
        /\ ~d.ok => (d.subscriptions = <<>> /\ ~Answered(cached_func, AccountListCmd, now))
        /\ \A k \in d.failing :
              ~Answered(cached_func, WorkspaceListCmd(d.subscriptions[k]), now)}

\* the codes of the chunks there are; the others are not drawn
MostChunks == (MaxListed + chunkSize - 1) \div chunkSize

CodesFor(n) ==
    {codes \in [1..MostChunks -> Codes] : \A i \in 1..MostChunks : i > n => codes[i] = Error}

\* the time the Result of a run is an outage from: every chunk of a
\* validation of at least one chunk failed
OutageAfter(r, t) ==
    IF r.chunks > 0 /\ r.failed = r.chunks THEN [at |-> t, chunks |-> r.chunks] ELSE None

NoAnswer == None

CustomerIds(value) ==
    LET given == [k \in 1..Len(value) |-> value[k].customerId]
    IN  SubSeq(given, 1, Len(given))

\* one call of listWorkspaces() through the action surface
ListWorkspaces ==
    /\ IF Fresh(day_cache, now)
       THEN /\ answered' = [name |-> "listWorkspaces", at |-> now, hit |-> TRUE,
                            raised |-> FALSE, listed |-> day_cache.value, ran |-> 0,
                            chunks |-> 0, failed |-> 0, since |-> outage]
            /\ UNCHANGED <<day_cache, outage, cached_func>>
       ELSE \E found \in Discoveries :
            \E listings \in [1..Len(found.subscriptions) -> ListedHere] :
            \E d \in {discovery(cached_func, now, found.subscriptions, listings,
                                 found.ok, found.failing)} :
            \E codes \in CodesFor(Len(d.chunked)) :
            \E r \in {listWorkspaces(d, now, codes)} :
                LET w == cached_listWorkspaces(day_cache, r, now)
                IN  /\ day_cache' = w.entry
                    /\ cached_func' = r.store
                    /\ outage' = IF r.raised THEN outage ELSE OutageAfter(r, now)
                    /\ answered' = [name |-> "listWorkspaces", at |-> now, hit |-> FALSE,
                                    raised |-> r.raised, listed |-> w.value, ran |-> r.ran,
                                    chunks |-> r.chunks, failed |-> r.failed,
                                    since |-> outage]
    /\ UNCHANGED <<now, invocations, computed, call, used, notDay>>

\* one call of globalQuery(query): listWorkspaces() as above, then
\* analyticsQuery with the customerIds of what it returned
GlobalQuery ==
    /\ IF Fresh(day_cache, now)
       THEN \E chunked \in {ChunkList(CustomerIds(day_cache.value))} :
            \E codes \in CodesFor(Len(chunked)) :
            \E q \in {analyticsQuery(cached_func, now, chunked, OtherQuery, codes)} :
                    /\ answered' = [name |-> "globalQuery", at |-> now, hit |-> TRUE,
                                    raised |-> FALSE, listed |-> day_cache.value,
                                    ran |-> q.ran, chunks |-> 0, failed |-> 0,
                                    since |-> outage]
                    /\ cached_func' = q.store
                    /\ UNCHANGED <<day_cache, outage>>
       ELSE \E found \in Discoveries :
            \E listings \in [1..Len(found.subscriptions) -> ListedHere] :
            \E d \in {discovery(cached_func, now, found.subscriptions, listings,
                                 found.ok, found.failing)} :
            \E codes \in CodesFor(Len(d.chunked)) :
            \E r \in {listWorkspaces(d, now, codes)} :
            \E chunked \in {ChunkList(CustomerIds(r.value))} :
            \E again \in CodesFor(Len(chunked)) :
            \E q \in {IF r.raised THEN [store |-> r.store, ran |-> 0]
                      ELSE analyticsQuery(r.store, now, chunked, OtherQuery, again)} :
                    LET w == cached_listWorkspaces(day_cache, r, now)
                    IN  /\ day_cache' = w.entry
                        /\ cached_func' = q.store
                        /\ outage' = IF r.raised THEN outage ELSE OutageAfter(r, now)
                        /\ answered' = [name |-> "globalQuery", at |-> now, hit |-> FALSE,
                                        raised |-> r.raised, listed |-> w.value,
                                        ran |-> r.ran + q.ran, chunks |-> r.chunks,
                                        failed |-> r.failed, since |-> outage]
    /\ UNCHANGED <<now, invocations, computed, call, used, notDay>>

\* half a day passes between two calls
Later ==
    /\ now + HalfDay <= MaxHalfDays * HalfDay
    /\ now' = now + HalfDay
    /\ UNCHANGED <<cached_func, invocations, computed, call, used, dayVars, notDay>>

\* neither listWorkspaces nor globalQuery has been called through the cache
NoDay ==
    /\ day_cache = None
    /\ outage = None
    /\ answered = NoAnswer

(***************************************************************************)
(* src/main.py: simpleQuery.  The fields of a Workspace are strings here,  *)
(* sequences of characters.                                                *)
(***************************************************************************)
\* str(workspace), the repr of the namedtuple
str_workspace(ws) ==
    Text("Workspace(subscription='") \o ws.subscription
        \o Text("', customerId='") \o ws.customerId
        \o Text("', resourceGroup='") \o ws.resourceGroup
        \o Text("', name='") \o ws.name \o Text("')")

\* str.find(sub): the lowest index sub is found at, -1 when it is not found
find(text, sub) ==
    LET at == {i \in 0..(Len(text) - Len(sub)) : SubSeq(text, i + 1, i + Len(sub)) = sub}
    IN  IF at = {} THEN -1 ELSE CHOOSE i \in at : \A j \in at : i <= j

\* the truth value of an int
truthy(n) == n # 0

\* for workspace in listWorkspaces():
\*     if str(workspace).find(name):
\*         return analyticsQuery([workspace.customerId], query)
\* as the list of customerIds analyticsQuery is called with; none, and
\* simpleQuery returns None, when the loop ends
RECURSIVE simpleQuery(_, _)
simpleQuery(listing, name) ==
    IF listing = <<>> THEN None
    ELSE IF truthy(find(str_workspace(Head(listing)), name))
    THEN [queried |-> <<Head(listing).customerId>>]
    ELSE simpleQuery(Tail(listing), name)

\* the workspaces listWorkspaces may return
NamedWorkspaces ==
    {Workspace(<<"s">>, <<"1">>, <<"r", "g">>, <<"p", "r", "o", "d">>),
     Workspace(<<"s">>, <<"2">>, <<"r", "g">>, <<"d", "e", "v">>),
     Workspace(<<"s">>, <<"3">>, <<"r", "g">>, <<"l", "a", "b">>)}

ListingsOf(n) == [1..n -> NamedWorkspaces]

\* the names simpleQuery is called with: the name of a workspace, the
\* beginning of every repr, a name of no workspace, the empty name
Names ==
    {<<"p", "r", "o", "d">>, <<"d", "e", "v">>,
     <<"W", "o", "r", "k", "s", "p", "a", "c", "e">>, <<"n", "o", "n", "e">>, <<>>}

SimpleQuery ==
    /\ \E n \in 0..MaxNamed, name \in Names :
          \E listing \in ListingsOf(n) :
             simple' = [listing |-> listing, name |-> name,
                        result |-> simpleQuery(listing, name)]
    /\ UNCHANGED notSimple

\* C25: simpleQuery(query, name) runs the query against the first workspace
\* returned by listWorkspaces whose string representation contains `name`; a
\* workspace that does not match `name` is never queried, and when no
\* workspace matches no query is run.
C25_FirstMatch ==
    (simple # None) =>
        LET matching == {k \in 1..Len(simple.listing) :
                            Contains(str_workspace(simple.listing[k]), simple.name)}
        IN  IF matching = {}
            THEN simple.result = None
            ELSE simple.result =
                    [queried |-> <<simple.listing[CHOOSE k \in matching :
                                      \A j \in matching : k <= j].customerId>>]

(***************************************************************************)
(* Claims about azcli, over its last call.                                 *)
(***************************************************************************)
AzCalled == az.key # None

AzRan == az.ran # <<>>

\* C14 (as stated): a call within 60 seconds of a call with the same
\* arguments that ran its command with success returns that result without
\* running the command, and a call after 60 seconds runs it again.
C14_AsClaimed ==
    (AzCalled /\ az.known # None) =>
        /\ az.at - az.known.at < 60 =>
              /\ ~AzRan
              /\ az.returned = az.known.value
        /\ az.at - az.known.at > 60 => AzRan

\* C14 (amended): the same, for a call whose entry is still held by the
\* shared Cache.  What azcli returns is set under its arguments with
\* expire = now + 60; a call before the expire time of the entry it finds
\* returns the entry's value and runs nothing; a call after it, or one that
\* finds no entry, is not answered from the Cache and runs the command
\* unless the login stops it.  An entry that holds a result holds the
\* result of the last run that succeeded.
C14_MemoizedWhileHeld ==
    AzCalled =>
        /\ (az.prior # None /\ az.at < az.prior.expire) =>
              /\ az.cached
              /\ ~AzRan
              /\ az.raised = None
              /\ az.returned = az.prior.value
        /\ (az.prior = None \/ az.at > az.prior.expire) =>
              /\ ~az.cached
              /\ AzRan \/ az.raised \in {[exception |-> "SystemExit"], [exception |-> "Exception"]}
        /\ (az.prior # None /\ "result" \in DOMAIN az.prior.value) =>
              /\ az.known # None
              /\ az.prior.value = az.known.value
              /\ az.prior.expire = az.known.at + 60
        /\ (AzRan /\ az.raised = None) =>
              /\ Holds(memo, az.key)
              /\ EntryOf(memo, az.key) = Entry(az.key, az.returned, az.at + 60)

\* a call 30 seconds after the run was answered from the Cache
C14_Witness ==
    /\ AzCalled /\ az.cached /\ ~AzRan
    /\ az.known # None
    /\ az.at = az.known.at + 30
    /\ az.returned = az.known.value

\* C15: when the command reports an error, azcli returns the caller's
\* error_result if one was given and otherwise raises the error the command
\* reported; it never returns a result for a failed command.
C15_ErrorPolicy ==
    (AzCalled /\ az.failed) =>
        /\ AzRan
        /\ az.key.args[2] # None =>
              az.raised = None /\ az.returned = az.key.args[2]
        /\ az.key.args[2] = None =>
              az.raised = [error |-> "cli.result.error"] /\ az.returned = None
        /\ "result" \notin DOMAIN az.returned

\* a command failed and the call returned the fallback it was given
C15_Witness ==
    /\ AzCalled /\ az.failed
    /\ az.key.args[2] = [fallback |-> "[]"]
    /\ az.returned = [fallback |-> "[]"]

KeysOf(store) == {store[i].key : i \in 1..Len(store)}

OneEntryPerKey(store) ==
    \A i, j \in 1..Len(store) : store[i].key = store[j].key => i = j

\* the position of the key's last use among the uses
Rank(history, key) == CHOOSE r \in 1..Len(history) : history[r] = key

\* a key the store loses is lost to a new key set in a full store
Crowded(before, after, maxsize) ==
    \A key \in KeysOf(before) \ KeysOf(after) :
        /\ Len(before) = maxsize
        /\ KeysOf(after) \ KeysOf(before) # {}

\* a key the store loses was used before every other key it held
LeastRecentlyUsed(before, after, history) ==
    \A key \in KeysOf(before) \ KeysOf(after) :
        \A other \in KeysOf(before) \ {key} : Rank(history, key) < Rank(history, other)

\* a key the store loses had expired, or held the result of a run no later
\* than the run of any entry that is kept
FirstIn(before, after, t) ==
    \A key \in KeysOf(before) \ KeysOf(after) :
        \/ has_expired(EntryOf(before, key).expire, t)
        \/ \A other \in KeysOf(before) \cap KeysOf(after) :
              EntryOf(before, key).value.result <= EntryOf(before, other).value.result

IdleQuery ==
    /\ workspaces = <<>>
    /\ chunks = <<>>
    /\ results = <<>>
    /\ output = <<>>
    /\ pc = "idle"
    /\ collected = 0
    /\ finished = <<>>

NextCache == Call \/ Tick

\* several threads call wrapper with a key whose entry has expired
InitRace == StaleEntry /\ IdleQuery /\ FreshSessions /\ IdleProxy /\ LoggedOut /\ NoDirectory /\ NoRepeat /\ NoCaller /\ NoDay

NextRace == Thread \/ Tick

SpecRace == InitRace /\ [][NextRace]_vars

InitCache == ColdCache /\ IdleQuery /\ FreshSessions /\ IdleProxy /\ LoggedOut /\ NoDirectory /\ NoRepeat /\ NoCaller /\ NoDay

SpecCache == InitCache /\ [][NextCache]_vars

InitQuery ==
    /\ ColdCache
    /\ FreshSessions
    /\ IdleProxy
    /\ LoggedOut
    /\ NoDirectory /\ NoRepeat
    /\ NoCaller
    /\ NoDay
    /\ \E n \in 0..MaxN, r \in Repeats : workspaces = WsList(n, r)
    /\ chunks = <<>>
    /\ results = <<>>
    /\ output = <<>>
    /\ pc = "idle"
    /\ collected = 0
    /\ finished = <<>>

NextQuery == Enter \/ Submit \/ Worker \/ Shutdown \/ Collect \/ Return

SpecQuery == InitQuery /\ [][NextQuery]_vars

\* analyticsQuery is called, and called again as soon as it has returned,
\* well within the ttl of what the first call stored
RepeatSizes == {0, 1, chunkSize + 1, 2 * chunkSize, MaxN}

InitRepeat ==
    /\ ColdCache
    /\ FreshSessions
    /\ IdleProxy
    /\ LoggedOut
    /\ NoDirectory /\ NoRepeat
    /\ NoCaller
    /\ NoDay
    /\ \E n \in RepeatSizes, r \in Repeats : workspaces = WsList(n, r)
    /\ chunks = <<>>
    /\ results = <<>>
    /\ output = <<>>
    /\ pc = "idle"
    /\ collected = 0
    /\ finished = <<>>

NextRepeat == Enter \/ Submit \/ Worker \/ Shutdown \/ Collect \/ Return \/ Repeat

SpecRepeat == InitRepeat /\ [][NextRepeat]_vars

\* The calling thread runs on, the pool runs every future it was given, and
\* every az command ends.
SpecQueryLive ==
    /\ InitQuery
    /\ [][NextQuery]_vars
    /\ WF_vars(Enter)
    /\ WF_vars(Submit)
    /\ WF_vars(Worker)
    /\ WF_vars(Shutdown)
    /\ WF_vars(Collect)
    /\ WF_vars(Return)

InitSession == ColdCache /\ IdleQuery /\ FreshSessions /\ IdleProxy /\ LoggedOut /\ NoDirectory /\ NoRepeat /\ NoCaller /\ NoDay

NextSession == LoadSession

SpecSession == InitSession /\ [][NextSession]_vars

\* requests resolve their session, one after the other
InitTable == ColdCache /\ IdleQuery /\ FreshSessions /\ IdleProxy /\ LoggedOut /\ NoDirectory /\ NoRepeat /\ NoCaller /\ NoDay

NextTable == Session

SpecTable == InitTable /\ [][NextTable]_vars

InitProxy == ColdCache /\ IdleQuery /\ FreshSessions /\ IdleProxy /\ LoggedOut /\ NoDirectory /\ NoRepeat /\ NoCaller /\ NoDay

NextProxy == Forward \/ Relay

SpecProxy == InitProxy /\ [][NextProxy]_vars

InitAzcli == ColdCache /\ IdleQuery /\ FreshSessions /\ IdleProxy /\ LoggedOut /\ NoDirectory /\ NoRepeat /\ NoCaller /\ NoDay

NextAzcli == Azcli \/ Advance

SpecAzcli == InitAzcli /\ [][NextAzcli]_vars

\* A caller that keeps the list it passes to azcli, in a process that other
\* callers log in.
InitArgs ==
    /\ ColdCache /\ IdleQuery /\ FreshSessions /\ IdleProxy /\ LoggedOut
    /\ NoDirectory /\ NoRepeat /\ Caller /\ NoDay

\* the call of another caller that logs the process in
FirstAzcli ==
    /\ az = NoAzcli
    /\ Azcli

NextArgs == FirstAzcli \/ AzcliHeld \/ Advance

SpecArgs == InitArgs /\ [][NextArgs]_vars

\* listWorkspaces and globalQuery are called, one call after the other, over
\* a day and a half.
InitDay == ColdCache /\ IdleQuery /\ FreshSessions /\ IdleProxy /\ LoggedOut /\ NoDirectory /\ NoRepeat /\ NoCaller /\ NoDay

NextDay == ListWorkspaces \/ GlobalQuery \/ Later

SpecDay == InitDay /\ [][NextDay]_vars

\* Both caches filled at one instant by calls whose function succeeds.
InitCapacity == ColdCache /\ IdleQuery /\ FreshSessions /\ IdleProxy /\ LoggedOut /\ NoDirectory /\ NoRepeat /\ NoCaller /\ NoDay

FillLru == \E key \in Keys : wrapper(key, 0, TRUE)

FillMemo ==
    \E cmd \in Commands, error_result \in Fallbacks, bootstrap_ok \in BOOLEAN :
        /\ Drawn(cmd, error_result, TRUE, bootstrap_ok, TRUE)
        /\ azcli(cmd, error_result, TRUE, bootstrap_ok, TRUE)

NextCapacity == FillLru \/ FillMemo

SpecCapacity == InitCapacity /\ [][NextCapacity]_vars

\* simpleQuery is called, again and again
InitSimple == ColdCache /\ IdleQuery /\ FreshSessions /\ IdleProxy /\ LoggedOut /\ NoDirectory /\ NoRepeat /\ NoCaller /\ NoDay

NextSimple == SimpleQuery

SpecSimple == InitSimple /\ [][NextSimple]_vars

(***************************************************************************)
(* Claims about the command azcli runs.                                    *)
(***************************************************************************)
\* C28: every execution of the external command by azcli runs exactly the
\* arguments it was called with followed by the fixed flags, the flags
\* appended once, and the call leaves the caller's list as it was, also when
\* the same list object is passed again after the entry expired.
C28_CommandFrame ==
    invoked # None =>
        /\ invoked.left = invoked.passed
        /\ invoked.ran # <<>> => \E cmd \in Commands : invoked.ran = cmd \o Flags

(***************************************************************************)
(* Claims about the day listWorkspaces is cached for.                      *)
(***************************************************************************)
\* C29: when every chunk of the validation fails during listWorkspaces, it
\* returns an empty list without raising and that list is kept for 24 hours;
\* every call of listWorkspaces or globalQuery in the 24 hours that follow is
\* answered from it, sees no workspaces, and executes no command.
C29_CachedOutage ==
    answered # NoAnswer =>
        /\ (~answered.hit /\ answered.chunks > 0 /\ answered.failed = answered.chunks) =>
              /\ ~answered.raised
              /\ answered.listed = <<>>
              /\ day_cache = Result(<<>>, <<>>, answered.at + Day)
        /\ (answered.since # None /\ answered.at <= answered.since.at + Day) =>
              /\ answered.hit
              /\ ~answered.raised
              /\ answered.listed = <<>>
              /\ answered.ran = 0

\* globalQuery is called exactly 24 hours after a validation of two chunks
\* failed in both, and is answered from the cache without a command.
C29_Witness ==
    /\ answered # NoAnswer
    /\ answered.name = "globalQuery"
    /\ answered.since # None
    /\ answered.since.chunks = 2
    /\ answered.at = answered.since.at + Day
    /\ answered.hit
    /\ answered.listed = <<>>
    /\ answered.ran = 0

(***************************************************************************)
(* Claims about listWorkspaces.                                            *)
(***************************************************************************)
\* The customerIds named by the rows the validation query's invocations
\* returned to analyticsQuery
Responding ==
    UNION {{results[i].value.rows[j][1] : j \in 1..Len(results[i].value.rows)} :
              i \in {n \in 1..Len(results) : ~Raises(results[n])}}

\* The workspaces the subscriptions' listings name
Listed ==
    {ws \in [subscription : Ids(discovered.subscriptions), customerId : 1..MaxListed,
             resourceGroup : {"rg"}, name : {"ws"}] :
        \E k \in 1..Len(discovered.subscriptions), i \in 1..MaxListed + 1 :
            /\ i <= Len(discovered.listings[k])
            /\ ws.subscription = discovered.subscriptions[k]
            /\ ws.customerId = discovered.listings[k][i][1]}

HasListed == "returned" \in DOMAIN listed

\* C17: listWorkspaces returns exactly those discovered workspaces
\* (deduplicated by the full subscription/customerId/resourceGroup/name tuple)
\* whose customerId is among the customerIds that responded to the validation
\* fan-out query; no workspace whose customerId did not respond is returned.
C17_Directory ==
    HasListed =>
        /\ \A a, b \in 1..Len(listed.returned) :
              a # b => listed.returned[a] # listed.returned[b]
        /\ Ids(listed.returned) = {ws \in Listed : ws.customerId \in Responding}

\* listWorkspaces has returned some but not all of the workspaces of two
\* subscriptions, one of which listed a workspace twice, and a workspace of
\* the same customerId under each subscription.
C17_Witness ==
    /\ HasListed
    /\ Len(discovered.subscriptions) = 2
    /\ \E k \in 1..2 : Len(discovered.listings[k]) > Cardinality(Ids(discovered.listings[k]))
    /\ Len(listed.returned) = 2
    /\ listed.returned[1].customerId = listed.returned[2].customerId
    /\ Cardinality(Listed) > 2

\* listWorkspaces is called once, with nothing cached.
InitDirectory ==
    /\ ColdCache
    /\ FreshSessions
    /\ IdleProxy
    /\ LoggedOut
    /\ NoDirectory /\ NoRepeat
    /\ NoCaller
    /\ NoDay
    /\ workspaces = <<>>
    /\ chunks = <<>>
    /\ results = <<>>
    /\ output = <<>>
    /\ pc = "listing"
    /\ collected = 0
    /\ finished = <<>>

NextDirectory ==
    Discover \/ Enter \/ Submit \/ Worker \/ Shutdown \/ Collect \/ Return \/ Validate

SpecDirectory == InitDirectory /\ [][NextDirectory]_vars

====
